---- MODULE Spec2Model ----
(***************************************************************************)
(* Ingestion and retrieval pipelines of cerebro-ai.                        *)
(*                                                                         *)
(* The store (documents, document_chunks) is the shared state; every       *)
(* background run of process-document is a process whose position is pc    *)
(* and whose locals are the fields of its run record.  Every await of a    *)
(* handler that writes the store is one atomic step; the calls between     *)
(* two writes that do not touch the store (extraction, classification,     *)
(* the embedding request) are folded into the write that follows them.     *)
(* A text is a sequence of one-character strings.                          *)
(***************************************************************************)
EXTENDS Integers, Sequences, FiniteSets, Bags, TLC

VARIABLES docs, chunks, nextDoc, runs, deleting, conversations, messages, query,
          response, chunker

chat == <<conversations, messages, query>>
vars == <<docs, chunks, nextDoc, runs, deleting, chat, response, chunker>>

----------------------------------------------------------------------------
(* Bounds of the model *)

MaxDocs == 1
MaxRuns == 2

\* chunkText(text, 150, 30), scaled down so that a short text gives several
\* chunks and more than one embedding batch
ChunkSize == 3
ChunkOverlap == 1
\* text.substring(0, 100000), scaled down
MaxTextLength == 14
\* text.trim().length < 100, scaled down
PdfMinChars == 3

\* chunkText(text, 350, 80) and batchSize = 10 of the earlier revision, scaled down
LegacyChunkSize == 4
LegacyChunkOverlap == 1
LegacyBatchSize == 2

\* questions one client session asks
MaxQueries == 2
\* texts and windows given to the chunker on its own
MaxChunkerText == 6
MaxWindow == 3
\* candidate lists given to the reranking: every list up to MaxCandidates,
\* and lists with two similarity levels up to MaxLongCandidates
MaxCandidates == 4
MaxLongCandidates == 10

(* Program constants *)

BatchSize == 3
\* RAGConfig.retrieval, similarities in hundredths
InitialMatchThreshold == 25
InitialMatchCount == 15
RerankThreshold == 28
TopChunksToUse == 8
ProgressExtracting == 10
ProgressChunking == 33
ProgressEmbedding == 50
ProgressEmbeddingSpan == 45
ProgressComplete == 100

----------------------------------------------------------------------------
(* Values *)

Users == {"u1", "u2"}
DocIds == 1..MaxDocs
RunIds == 1..MaxRuns

NoDoc == [status |-> "absent"]
NullText == "NULL"
NullInt == -1

TextPlain == "text/plain"
TypePdf == "application/pdf"
TypeDocx == "application/vnd.openxmlformats-officedocument.wordprocessingml.document"
TypeImage == "image/png"
FileTypes == {TextPlain, TypePdf, TypeDocx, TypeImage}
FileNames == {"a.md"}

Stages == <<"pending", "extracting", "chunking", "embedding", "complete">>

\* texts of the payloads
TextEmpty == <<>>
TextBlank == <<" ">>
TextSeven == <<"a", " ", "b", " ", "c", " ", "d", " ", "e", " ", "f", " ", "g">>
TextLong == TextSeven \o <<" ", "h", " ", "i">>

\* a payload: the text its bytes hold and whether a PDF / DOCX parser accepts it
Contents ==
    { [text |-> TextEmpty, parses |-> TRUE],
      [text |-> TextBlank, parses |-> TRUE],
      [text |-> TextSeven, parses |-> TRUE],
      [text |-> TextLong, parses |-> FALSE] }

NoContent == [text |-> <<>>, parses |-> FALSE]

Folders == {"Strategy"}

----------------------------------------------------------------------------
(* String functions *)

Min(a, b) == IF a < b THEN a ELSE b

IsSpace(c) == c \in {" ", "\n"}

RECURSIVE SplitRec(_, _, _, _)
SplitRec(s, i, cur, inWs) ==
    IF i > Len(s) THEN <<cur>>
    ELSE IF IsSpace(s[i])
         THEN IF inWs THEN SplitRec(s, i + 1, cur, TRUE)
              ELSE <<cur>> \o SplitRec(s, i + 1, <<>>, TRUE)
         ELSE SplitRec(s, i + 1, Append(cur, s[i]), FALSE)

\* text.split(/\s+/)
Split(s) == SplitRec(s, 1, <<>>, FALSE)

RECURSIVE JoinNoSeparator(_)
JoinNoSeparator(ws) == IF Len(ws) = 0 THEN <<>> ELSE ws[1] \o JoinNoSeparator(Tail(ws))

RECURSIVE Join(_)
\* words.join(' ')
Join(ws) ==
    IF Len(ws) = 0 THEN <<>>
    ELSE IF Len(ws) = 1 THEN ws[1]
    ELSE ws[1] \o <<" ">> \o Join(Tail(ws))

SliceShort(ws, from, to) == SubSeq(ws, from + 1, Min(to, Len(ws)) - 1)

\* words.slice(from, to) with 0-based from, exclusive to
Slice(ws, from, to) == SubSeq(ws, from + 1, Min(to, Len(ws)))

SubstringWhole(s, n) == s

\* text.substring(0, n)
Substring(s, n) == SubSeq(s, 1, Min(n, Len(s)))

RECURSIVE TrimLeft(_)
TrimLeft(s) == IF Len(s) > 0 /\ IsSpace(s[1]) THEN TrimLeft(Tail(s)) ELSE s

RECURSIVE TrimRight(_)
TrimRight(s) ==
    IF Len(s) > 0 /\ IsSpace(s[Len(s)]) THEN TrimRight(SubSeq(s, 1, Len(s) - 1)) ELSE s

\* text.trim()
Trim(s) == TrimRight(TrimLeft(s))

RECURSIVE ChunkLoop(_, _, _, _)
ChunkLoop(words, i, chunkSize, overlap) ==
    IF i >= Len(words) THEN <<>>
    ELSE LET chunk == Join(Slice(words, i, i + chunkSize))
             rest == ChunkLoop(words, i + (chunkSize - overlap), chunkSize, overlap)
         IN  IF Len(chunk) > 0 THEN <<chunk>> \o rest ELSE rest

chunkText(text, chunkSize, overlap) == ChunkLoop(Split(text), 0, chunkSize, overlap)

\* Math.ceil(chunk.length / 4)
TokenCount(chunk) == (Len(chunk) + 3) \div 4

----------------------------------------------------------------------------
(* The embedding service: one vector per input text *)

\* the direction of a text, decided by its first character
Code(c) ==
    IF c \in {"a", "b"} THEN 0
    ELSE IF c \in {"c", "d"} THEN 1
    ELSE IF c \in {"e", "f"} THEN 2
    ELSE IF c \in {"g", "h"} THEN 3
    ELSE IF c \in {"i", "s"} THEN 4
    ELSE 5

Embed(text) == IF Len(text) = 0 THEN 5 ELSE Code(text[1])

\* 1 - (embedding <=> query_embedding), in hundredths
SimilarityByDistance == <<90, 50, 28, 26, 25, 20>>

Similarity(e, q) == SimilarityByDistance[(IF e >= q THEN e - q ELSE q - e) + 1]

----------------------------------------------------------------------------
(* Rows *)

\* documents.insert({user_id, file_name, file_type, file_size, status: 'processing'})
\* with the column defaults of the schema
NewDocumentExtracting(u, name, type) ==
    [ status |-> "processing", user_id |-> u, file_name |-> name, file_type |-> type,
      processing_stage |-> "extracting", processing_progress |-> 10,
      chunk_count |-> 0, text_length |-> NullInt,
      folder |-> NullText, parent_folder |-> NullText, error_message |-> NullText ]

NewDocument(u, name, type) ==
    [ status |-> "processing", user_id |-> u, file_name |-> name, file_type |-> type,
      processing_stage |-> "pending", processing_progress |-> 0,
      chunk_count |-> 0, text_length |-> NullInt,
      folder |-> NullText, parent_folder |-> NullText, error_message |-> NullText ]

Exists(d) == docs[d].status # "absent"

Merge(row, upd) == [k \in DOMAIN row |-> IF k \in DOMAIN upd THEN upd[k] ELSE row[k]]

UpdateEveryDocument(d, upd) ==
    [x \in DOMAIN docs |-> IF Exists(x) THEN Merge(docs[x], upd) ELSE docs[x]]

\* supabase.from('documents').update(upd).eq('id', d): no row, no effect
UpdateDocument(d, upd) ==
    IF Exists(d) THEN [docs EXCEPT ![d] = Merge(@, upd)] ELSE docs

ChunksOf(d) == { row \in DOMAIN chunks : row.document_id = d }

\* the rows of document d, counted with their multiplicity
ChunkRowCount(d) == BagCardinality([row \in ChunksOf(d) |-> chunks[row]])

WithoutRows(rows) == [row \in (DOMAIN chunks) \ rows |-> chunks[row]]

ConvIds == {"c1", "c2"}

IdleQuery ==
    [ pc |-> "idle", conversation_id |-> 0, query |-> <<>>, userId |-> NullText,
      chunks |-> <<>>, rerankedChunks |-> <<>>, context |-> <<>>, sources |-> <<>>,
      response |-> [kind |-> "none"] ]

\* the locals of one run; calls counts its requests to the embedding service
IdleRun ==
    [ pc |-> "idle", documentId |-> 0, content |-> NoContent,
      userId |-> NullText, fileName |-> NullText,
      actualUserId |-> NullText, actualFileName |-> NullText, actualFileType |-> NullText,
      text |-> <<>>, folder |-> NullText, chunks |-> <<>>, i |-> 0,
      calls |-> 0 ]

----------------------------------------------------------------------------
(* Messages of the failures *)

MsgNotFound == "Document not found"
MsgPdfParse == "Failed to extract text from PDF. The file may be corrupted or use an unsupported format."
MsgPdfEmpty == "Could not extract text from PDF - file may be empty or corrupted"
MsgDocxParse == "Failed to extract text from Word document. The file may be corrupted or use an unsupported format."
MsgDocxEmpty == "Could not extract text from Word document - file may be empty or corrupted"
MsgInvalidKey == "OpenAI API key is invalid or missing"
MsgRateLimit == "OpenAI API rate limit exceeded - please try again later"
MsgEmbedding500 == "Failed to generate embeddings: 500"
MsgFetch == "fetch failed"
MsgTimeout == "request timeout"
MsgInsert == "insert failed"
MsgForeignKey == "violates foreign key constraint fk_document"
MsgNetworkHint == "Network error - check your connection and try again"
MsgTimeoutHint == "Processing timeout - file may be too large"

\* errorMessage.includes('network') || errorMessage.includes('fetch')
IncludesNetwork(msg) == msg \in {MsgFetch, MsgNetworkHint}
\* errorMessage.includes('timeout')
IncludesTimeout(msg) == msg \in {MsgTimeout, MsgTimeoutHint}

UserMessage(msg) ==
    IF IncludesNetwork(msg) THEN MsgNetworkHint
    ELSE IF IncludesTimeout(msg) THEN MsgTimeoutHint
    ELSE msg

----------------------------------------------------------------------------
(* Initial state *)

\* the locals of one call of chunkText
IdleChunker ==
    [ pc |-> "idle", text |-> <<>>, chunkSize |-> 0, overlap |-> 0, words |-> <<>>,
      i |-> 0, chunks |-> <<>> ]

\* the answers of the process-document endpoint; response holds the last one
NoResponse == [status |-> 0]
Created(d) == [status |-> 200, documentId |-> d]
Started == [status |-> 200, success |-> TRUE, message |-> "Processing started"]
InvalidRequest == [status |-> 400, error |-> "Invalid request"]
ServerError(msg) == [status |-> 500, error |-> msg]

NoChat ==
    /\ conversations = [c \in ConvIds |-> NullText]
    /\ messages = <<>>
    /\ query = IdleQuery

Init ==
    /\ docs = [d \in DocIds |-> NoDoc]
    /\ chunks = EmptyBag
    /\ nextDoc = 1
    /\ runs = [r \in RunIds |-> IdleRun]
    /\ deleting = {}
    /\ NoChat
    /\ response = NoResponse
    /\ chunker = IdleChunker

----------------------------------------------------------------------------
(* process-document, stage 1: create the document row *)

CreateDocument(u, name, type) ==
    /\ nextDoc <= MaxDocs
    /\ docs' = [docs EXCEPT ![nextDoc] = NewDocument(u, name, type)]
    /\ nextDoc' = nextDoc + 1
    /\ response' = Created(nextDoc)
    /\ UNCHANGED <<chat, chunks, runs, deleting, chunker>>

(* process-document, stage 2: launch the background run and answer at once *)

FreeSlot(r) ==
    /\ runs[r].pc = "idle"
    /\ \A q \in RunIds : q < r => runs[q].pc # "idle"

StartProcessing(r, d, c) ==
    /\ FreeSlot(r)
    /\ c # NoContent
    /\ runs' = [runs EXCEPT ![r] = [IdleRun EXCEPT !.pc = "start", !.documentId = d,
                                                   !.content = c]]
    /\ response' = Started
    /\ UNCHANGED <<chat, docs, chunks, nextDoc, deleting, chunker>>

(* the catch block of processInBackground *)

Ended(r, pc) == [IdleRun EXCEPT !.pc = pc, !.documentId = runs[r].documentId]

CatchResetsProgress(r, msg) ==
    /\ runs' = [runs EXCEPT ![r] = Ended(r, "failed")]
    /\ docs' = UpdateDocument(runs[r].documentId,
                              [status |-> "error", error_message |-> UserMessage(msg),
                               processing_progress |-> 0])
    /\ UNCHANGED <<chat, chunks, nextDoc, deleting, response, chunker>>

CatchSwallows(r, msg) ==
    /\ runs' = [runs EXCEPT ![r] = Ended(r, "failed")]
    /\ UNCHANGED <<chat, docs, chunks, nextDoc, deleting, response, chunker>>

Catch(r, msg) ==
    /\ runs' = [runs EXCEPT ![r] = Ended(r, "failed")]
    /\ docs' = UpdateDocument(runs[r].documentId,
                              [status |-> "error", error_message |-> UserMessage(msg)])
    /\ UNCHANGED <<chat, chunks, nextDoc, deleting, response, chunker>>

(* fetch the document row, mark extracting *)

MarkExtractingStageOnly(d) == UpdateDocument(d, [processing_stage |-> "extracting"])

MarkExtracting(d) ==
    UpdateDocument(d, [processing_progress |-> ProgressExtracting,
                       processing_stage |-> "extracting"])

Begin(r) ==
    /\ runs[r].pc = "start"
    /\ LET d == runs[r].documentId IN
         IF ~Exists(d) THEN Catch(r, MsgNotFound)
         ELSE /\ runs' = [runs EXCEPT ![r] =
                            [@ EXCEPT !.pc = "extracting",
                                      !.actualUserId = docs[d].user_id,
                                      !.actualFileName = docs[d].file_name,
                                      !.actualFileType = docs[d].file_type]]
              /\ docs' = MarkExtracting(d)
              /\ UNCHANGED <<chat, chunks, nextDoc, deleting, response, chunker>>

(* extraction by declared type, mark chunking, truncate *)

\* fixed texts the extractors substitute (abbreviated)
OcrNote == <<"s", " ", "n">>
OcrFailedNote == <<"x">>
VisionText == <<"i", " ", "v">>
ImagePlaceholder == <<"i", " ", "p">>

Ok(text) == [ok |-> TRUE, text |-> text, msg |-> ""]
Thrown(msg) == [ok |-> FALSE, text |-> <<>>, msg |-> msg]

\* extractTextFromPDF: the text of the pages, each followed by '\n\n'
PdfText(c) == c.text \o <<"\n", "\n">>

\* ocrScannedPDF: a note, whether or not pdf-parse could read the buffer
OcrResults == {OcrNote, OcrFailedNote}

\* what the vision call meets: an analysis, an exception (no key, fetch or
\* JSON failure), a response that is not ok, or a response without content
VisionOutcomes == {"analysis", "throws", "not ok", "empty"}

\* analyzeImageWithVision returns the analysis or '' and never throws
analyzeImageWithVision(o) == IF o = "analysis" THEN VisionText ELSE <<>>

VisionResults == { analyzeImageWithVision(o) : o \in VisionOutcomes }

ExtractPdfLenient(c) == {Ok(PdfText(c))}

\* extractTextFromPDF, then ocrScannedPDF for a short text, then the empty check
ExtractPdf(c) ==
    IF ~c.parses THEN {Thrown(MsgPdfParse)}
    ELSE LET first == PdfText(c)
             texts == IF Len(Trim(first)) < PdfMinChars THEN OcrResults ELSE {first}
         IN  { IF Len(Trim(t)) = 0 THEN Thrown(MsgPdfEmpty) ELSE Ok(t) : t \in texts }

ExtractDocx(c) ==
    IF ~c.parses THEN {Thrown(MsgDocxParse)}
    ELSE IF Len(Trim(c.text)) = 0 THEN {Thrown(MsgDocxEmpty)}
    ELSE {Ok(c.text)}

ExtractImageStrict(c) ==
    { IF Len(v) > 0 THEN Ok(v) ELSE Thrown("Vision API error") : v \in VisionResults }

\* the image branch: the analysis, or the placeholder when there is none
ExtractImageWith(o) ==
    LET visionText == analyzeImageWithVision(o)
    IN  IF Len(visionText) > 0 THEN Ok(visionText) ELSE Ok(ImagePlaceholder)

ExtractImage(c) == { ExtractImageWith(o) : o \in VisionOutcomes }

\* new TextDecoder().decode(buffer)
ExtractPlain(c) == {Ok(c.text)}

ExtractText(type, c) ==
    IF type = TypePdf THEN ExtractPdf(c)
    ELSE IF type = TypeDocx THEN ExtractDocx(c)
    ELSE IF type = TypeImage THEN ExtractImage(c)
    ELSE ExtractPlain(c)

MarkChunkingSkipsStage(d) ==
    UpdateDocument(d, [processing_progress |-> ProgressChunking,
                       processing_stage |-> "embedding"])

MarkChunking(d) ==
    UpdateDocument(d, [processing_progress |-> ProgressChunking,
                       processing_stage |-> "chunking"])

Extract(r) ==
    /\ runs[r].pc = "extracting"
    /\ \E out \in ExtractText(runs[r].actualFileType, runs[r].content) :
         IF ~out.ok THEN Catch(r, out.msg)
         ELSE /\ runs' = [runs EXCEPT ![r] =
                            [@ EXCEPT !.pc = "chunking", !.content = NoContent,
                                      !.text = Substring(out.text, MaxTextLength)]]
              /\ docs' = MarkChunking(runs[r].documentId)
              /\ UNCHANGED <<chat, chunks, nextDoc, deleting, response, chunker>>

(* classify, chunk, mark embedding *)

\* the label of classify-topic, 'Uncategorized' on any failure
(* classify-topic and its call from the run *)

RECURSIVE Concat(_)
Concat(s) == IF Len(s) = 0 THEN "" ELSE s[1] \o Concat(Tail(s))

\* what the completion service does to a classification: content is the text
\* of choices[0].message.content, a folder name counting as one character
GatewayOutcomes ==
    { [kind |-> k, content |-> <<>>] :
        k \in {"no key", "throws", "not ok", "malformed", "no choices", "no message"} }
    \cup { [kind |-> "content", content |-> c] :
             c \in {<<>>, <<" ">>} \cup { <<f>> : f \in Folders }
                   \cup { <<" ", f, " ">> : f \in Folders } }

Uncategorized == "Uncategorized"

classify_topic_no_fallback(o) ==
    [ status |-> 200, folder |-> Concat(Trim(o.content)) ]

\* the answer of the classify-topic endpoint
classify_topic(o) ==
    IF o.kind \in {"no key", "throws", "malformed", "no choices", "not ok"}
    THEN [status |-> 200, folder |-> Uncategorized]
    ELSE LET content == IF o.kind = "no message" THEN "" ELSE Concat(Trim(o.content))
         IN  [status |-> 200, folder |-> IF content = "" THEN Uncategorized ELSE content]

NoClassifyResponse == [status |-> 0, folder |-> NullText]

\* what the run's fetch of classify-topic can meet
ClassifyCalls ==
    { [kind |-> k, response |-> NoClassifyResponse] : k \in {"throws", "not ok", "malformed"} }
    \cup { [kind |-> "answered", response |-> classify_topic(o)] : o \in GatewayOutcomes }

\* the folder the run goes on with
ClassifyFolder(call) ==
    IF call.kind = "answered" /\ call.response.status = 200
    THEN IF call.response.folder \in {NullText, ""} THEN Uncategorized
         ELSE call.response.folder
    ELSE Uncategorized

ClassifyResults == { ClassifyFolder(call) : call \in ClassifyCalls }

MarkEmbedding(d) ==
    UpdateDocument(d, [processing_progress |-> ProgressEmbedding,
                       processing_stage |-> "embedding"])

Chunk(r) ==
    /\ runs[r].pc = "chunking"
    /\ \E f \in ClassifyResults :
         runs' = [runs EXCEPT ![r] =
                    [@ EXCEPT !.pc = "embedding", !.folder = f, !.i = 0,
                              !.chunks = chunkText(runs[r].text, ChunkSize, ChunkOverlap)]]
    /\ docs' = MarkEmbedding(runs[r].documentId)
    /\ UNCHANGED <<chat, chunks, nextDoc, deleting, response, chunker>>

(* the embedding loop: progress, then embed and insert one batch *)

EmbeddingProgressNoBase(i, n) == (i * ProgressEmbeddingSpan) \div n

EmbeddingProgressByEnd(i, n) ==
    ProgressEmbedding + ((Min(i + BatchSize, n) * ProgressEmbeddingSpan) \div n)

\* 50 + Math.floor((i / chunks.length) * 45)
EmbeddingProgress(i, n) == ProgressEmbedding + ((i * ProgressEmbeddingSpan) \div n)

UpdateProgress(r) ==
    /\ runs[r].pc = "embedding"
    /\ runs[r].i < Len(runs[r].chunks)
    /\ runs' = [runs EXCEPT ![r] = [@ EXCEPT !.pc = "embed"]]
    /\ docs' = UpdateDocument(runs[r].documentId,
                 [processing_progress |-> EmbeddingProgress(runs[r].i, Len(runs[r].chunks))])
    /\ UNCHANGED <<chat, chunks, nextDoc, deleting, response, chunker>>

\* chunks.slice(i, i + batchSize)
Batch(r) == Slice(runs[r].chunks, runs[r].i, runs[r].i + BatchSize)

ChunkOwner(r) == runs[r].actualUserId

ChunkIndexInBatch(i, idx) == idx

\* chunk_index: i + idx
ChunkIndex(i, idx) == i + idx

\* embeddingData.data of an ok response: one vector per input, in input order
EmbeddingData(batch) == [k \in 1..Len(batch) |-> Embed(batch[k])]

\* batch.map((chunk, idx) => ({...})) with embeddingData.data[idx].embedding
ChunksToInsert(r) ==
    { [ document_id |-> runs[r].documentId,
        user_id |-> ChunkOwner(r),
        chunk_text |-> Batch(r)[k],
        chunk_index |-> ChunkIndex(runs[r].i, k - 1),
        token_count |-> TokenCount(Batch(r)[k]),
        embedding |-> EmbeddingData(Batch(r))[k],
        folder |-> runs[r].folder,
        parent_folder |-> NullText,
        metadata |-> [file_name |-> runs[r].actualFileName, folder |-> runs[r].folder] ]
      : k \in 1..Len(Batch(r)) }

\* the answer of the embedding service: ok, a status, or the request throws
EmbeddingResponses == {"ok", "401", "429", "500", "503", "throws"}

EmbeddingErrorGeneric(resp) == "Failed to generate embeddings: " \o resp

\* the error the pass throws on a response that is not ok
EmbeddingError(resp) ==
    IF resp = "throws" THEN MsgFetch
    ELSE IF resp = "401" THEN MsgInvalidKey
    ELSE IF resp = "429" THEN MsgRateLimit
    ELSE "Failed to generate embeddings: " \o resp

NoForeignKey(d) == TRUE

\* fk_document: a chunk row needs its document row
ForeignKeyHolds(d) == Exists(d)

InsertChunksUpsert(rows) == chunks (+) SetToBag(rows \ DOMAIN chunks)

InsertChunksOneByOne(rows) == chunks (+) SetToBag({CHOOSE row \in rows : TRUE})

\* document_chunks.insert(rows): one statement, all rows or none
InsertChunks(rows) == chunks (+) SetToBag(rows)

EmbedBatch(r) ==
    /\ runs[r].pc = "embed"
    /\ \E resp \in EmbeddingResponses, stored \in BOOLEAN :
         IF resp # "ok" THEN stored /\ Catch(r, EmbeddingError(resp))
         ELSE IF ~ForeignKeyHolds(runs[r].documentId) THEN stored /\ Catch(r, MsgForeignKey)
         ELSE IF ~stored THEN Catch(r, MsgInsert)
         ELSE /\ chunks' = InsertChunks(ChunksToInsert(r))
              /\ runs' = [runs EXCEPT ![r] =
                            [@ EXCEPT !.pc = "embedding", !.i = @ + BatchSize,
                                      !.calls = @ + 1]]
              /\ UNCHANGED <<chat, docs, nextDoc, deleting, response, chunker>>

(* the final update *)

MarkReadyKeepsError(r) ==
    UpdateDocument(runs[r].documentId,
        [ status |-> "ready",
          chunk_count |-> Len(runs[r].chunks),
          text_length |-> Len(runs[r].text),
          folder |-> runs[r].folder,
          processing_progress |-> ProgressComplete,
          processing_stage |-> "complete" ])

MarkReady(r) ==
    UpdateDocument(runs[r].documentId,
        [ status |-> "ready",
          chunk_count |-> Len(runs[r].chunks),
          text_length |-> Len(runs[r].text),
          folder |-> runs[r].folder,
          error_message |-> NullText,
          processing_progress |-> ProgressComplete,
          processing_stage |-> "complete" ])

Finish(r) ==
    /\ runs[r].pc = "embedding"
    /\ runs[r].i >= Len(runs[r].chunks)
    /\ runs' = [runs EXCEPT ![r] = Ended(r, "done")]
    /\ docs' = MarkReady(r)
    /\ UNCHANGED <<chat, chunks, nextDoc, deleting, response, chunker>>

----------------------------------------------------------------------------
(* DocumentSidebar: delete and retry, issued by the owner of the document *)

\* document_chunks.delete().eq('document_id', d) under the owner's row policy
DeleteChunks(d) ==
    /\ Exists(d)
    /\ d \notin deleting
    /\ chunks' = WithoutRows({ row \in ChunksOf(d) : row.user_id = docs[d].user_id })
    /\ deleting' = deleting \cup {d}
    /\ UNCHANGED <<chat, docs, nextDoc, runs, response, chunker>>

\* documents.delete().eq('id', d); fk_document ON DELETE CASCADE
DeleteDocument(d) ==
    /\ d \in deleting
    /\ docs' = [docs EXCEPT ![d] = NoDoc]
    /\ chunks' = WithoutRows(ChunksOf(d))
    /\ deleting' = deleting \ {d}
    /\ UNCHANGED <<chat, nextDoc, runs, response, chunker>>

\* handleRetry, offered for a document in status error
Retry(d) ==
    /\ docs[d].status = "error"
    /\ docs' = UpdateDocument(d, [status |-> "processing", error_message |-> NullText])
    /\ UNCHANGED <<chat, chunks, nextDoc, runs, deleting, response, chunker>>

----------------------------------------------------------------------------

Next ==
    \/ \E u \in Users, name \in FileNames, type \in FileTypes : CreateDocument(u, name, type)
    \/ \E r \in RunIds, d \in DocIds, c \in Contents : StartProcessing(r, d, c)
    \/ \E r \in RunIds : Begin(r)
    \/ \E r \in RunIds : Extract(r)
    \/ \E r \in RunIds : Chunk(r)
    \/ \E r \in RunIds : UpdateProgress(r)
    \/ \E r \in RunIds : EmbedBatch(r)
    \/ \E r \in RunIds : Finish(r)
    \/ \E d \in DocIds : DeleteChunks(d)
    \/ \E d \in DocIds : DeleteDocument(d)
    \/ \E d \in DocIds : Retry(d)

Spec == Init /\ [][Next]_vars

----------------------------------------------------------------------------
(* supabase/functions/process-document/index.ts: the revision without stages. *)
(* It decodes every payload as text, takes user_id and file_name from the      *)
(* request and does not look at the result of the chunk insert.                *)

MsgLegacyEmbedding == "Failed to generate embedding: 500 - error"

LegacyStart(r, d, u, name, c) ==
    /\ FreeSlot(r)
    /\ c # NoContent
    /\ LET text == Substring(c.text, MaxTextLength) IN
         runs' = [runs EXCEPT ![r] =
                    [IdleRun EXCEPT !.pc = "legacy", !.documentId = d, !.userId = u,
                                    !.fileName = name, !.text = text, !.i = 0,
                                    !.chunks = chunkText(text, LegacyChunkSize,
                                                         LegacyChunkOverlap)]]
    /\ response' = Started
    /\ UNCHANGED <<chat, docs, chunks, nextDoc, deleting, chunker>>

LegacyCatch(r, msg) ==
    /\ runs' = [runs EXCEPT ![r] = Ended(r, "failed")]
    /\ docs' = UpdateDocument(runs[r].documentId,
                              [status |-> "error", error_message |-> msg])
    /\ UNCHANGED <<chat, chunks, nextDoc, deleting, response, chunker>>

LegacyBatch(r) == Slice(runs[r].chunks, runs[r].i, runs[r].i + LegacyBatchSize)

LegacyChunksToInsert(r) ==
    { [ document_id |-> runs[r].documentId,
        user_id |-> runs[r].userId,
        chunk_text |-> LegacyBatch(r)[k],
        chunk_index |-> ChunkIndex(runs[r].i, k - 1),
        token_count |-> TokenCount(LegacyBatch(r)[k]),
        embedding |-> EmbeddingData(LegacyBatch(r))[k],
        folder |-> NullText,
        parent_folder |-> NullText,
        metadata |-> [file_name |-> runs[r].fileName, folder |-> NullText] ]
      : k \in 1..Len(LegacyBatch(r)) }

LegacyEmbeddingResponses == {"ok", "500", "throws"}

LegacyEmbedBatch(r) ==
    /\ runs[r].pc = "legacy"
    /\ runs[r].i < Len(runs[r].chunks)
    /\ \E resp \in LegacyEmbeddingResponses, stored \in BOOLEAN :
         IF resp # "ok"
         THEN stored /\ LegacyCatch(r, IF resp = "500" THEN MsgLegacyEmbedding ELSE MsgFetch)
         ELSE /\ chunks' = IF ForeignKeyHolds(runs[r].documentId) /\ stored
                           THEN InsertChunks(LegacyChunksToInsert(r))
                           ELSE chunks
              /\ runs' = [runs EXCEPT ![r] = [@ EXCEPT !.i = @ + LegacyBatchSize,
                                                        !.calls = @ + 1]]
              /\ UNCHANGED <<chat, docs, nextDoc, deleting, response, chunker>>

LegacyFinish(r) ==
    /\ runs[r].pc = "legacy"
    /\ runs[r].i >= Len(runs[r].chunks)
    /\ runs' = [runs EXCEPT ![r] = Ended(r, "done")]
    /\ docs' = UpdateDocument(runs[r].documentId,
                 [ status |-> "ready",
                   chunk_count |-> Len(runs[r].chunks),
                   text_length |-> Len(runs[r].text) ])
    /\ UNCHANGED <<chat, chunks, nextDoc, deleting, response, chunker>>

LegacyNext ==
    \/ \E u \in Users, name \in FileNames, type \in FileTypes : CreateDocument(u, name, type)
    \/ \E r \in RunIds, d \in DocIds, u \in Users, name \in FileNames, c \in Contents :
         LegacyStart(r, d, u, name, c)
    \/ \E r \in RunIds : LegacyEmbedBatch(r)
    \/ \E r \in RunIds : LegacyFinish(r)
    \/ \E d \in DocIds : DeleteChunks(d)
    \/ \E d \in DocIds : DeleteDocument(d)
    \/ \E d \in DocIds : Retry(d)

SpecLegacy == Init /\ [][LegacyNext]_vars

----------------------------------------------------------------------------
(* query-rag *)

Falsy(x) == x \in {NullText, ""}

OwnedByAnyone(row, u) == TRUE

\* WHERE document_chunks.user_id = filter_user_id
OwnedBy(row, u) == row.user_id = u

\* the stored rows, one element per row instance
RowInstances == UNION { { <<row, k>> : k \in 1..chunks[row] } : row \in DOMAIN chunks }

MatchingAtThreshold(query_embedding, match_threshold, filter_user_id) ==
    { inst \in RowInstances :
        /\ OwnedBy(inst[1], filter_user_id)
        /\ Similarity(inst[1].embedding, query_embedding) >= match_threshold }

Matching(query_embedding, match_threshold, filter_user_id) ==
    { inst \in RowInstances :
        /\ OwnedBy(inst[1], filter_user_id)
        /\ Similarity(inst[1].embedding, query_embedding) > match_threshold }

Found(inst, query_embedding) ==
    [ id |-> inst,
      document_id |-> inst[1].document_id,
      chunk_text |-> inst[1].chunk_text,
      chunk_index |-> inst[1].chunk_index,
      similarity |-> Similarity(inst[1].embedding, query_embedding),
      metadata |-> inst[1].metadata ]

MaxSimilarity(S, qe) ==
    CHOOSE m \in { Similarity(i[1].embedding, qe) : i \in S } :
        \A i \in S : Similarity(i[1].embedding, qe) <= m

RECURSIVE Ordered(_, _)
\* ORDER BY embedding <=> query_embedding: rows at equal distance in any order
Ordered(S, qe) ==
    IF S = {} THEN {<<>>}
    ELSE UNION { { <<Found(i, qe)>> \o rest : rest \in Ordered(S \ {i}, qe) }
                 : i \in { j \in S : Similarity(j[1].embedding, qe) = MaxSimilarity(S, qe) } }

\* the result sets search_chunks can return (LIMIT match_count)
search_chunks(query_embedding, match_threshold, match_count, filter_user_id) ==
    { SubSeq(rows, 1, Min(match_count, Len(rows)))
      : rows \in Ordered(Matching(query_embedding, match_threshold, filter_user_id),
                         query_embedding) }

RECURSIVE InsertUnstable(_, _)
InsertUnstable(sorted, x) ==
    IF Len(sorted) = 0 THEN <<x>>
    ELSE IF sorted[1].similarity > x.similarity
         THEN <<sorted[1]>> \o InsertUnstable(Tail(sorted), x)
         ELSE <<x>> \o sorted

RECURSIVE InsertSorted(_, _)
\* x goes behind every element that is not smaller: the sort is stable
InsertSorted(sorted, x) ==
    IF Len(sorted) = 0 THEN <<x>>
    ELSE IF sorted[1].similarity >= x.similarity
         THEN <<sorted[1]>> \o InsertSorted(Tail(sorted), x)
         ELSE <<x>> \o sorted

RECURSIVE SortBySimilarity(_)
\* .sort((a, b) => b.similarity - a.similarity)
SortBySimilarity(rows) ==
    IF Len(rows) = 0 THEN <<>>
    ELSE InsertSorted(SortBySimilarity(SubSeq(rows, 1, Len(rows) - 1)), rows[Len(rows)])

\* filter(similarity >= rerankThreshold).sort(desc).slice(0, topChunksToUse)
Rerank(rows, rerankThreshold, topChunksToUse) ==
    LET kept == SelectSeq(rows, LAMBDA row : row.similarity >= rerankThreshold)
        sorted == SortBySimilarity(kept)
    IN  SubSeq(sorted, 1, Min(topChunksToUse, Len(sorted)))

\* one entry per '[Source i] (From: folder / docName)\n text' block
BuildContext(rows) ==
    [ k \in 1..Len(rows) |->
        [ source |-> k,
          folder |-> IF Falsy(rows[k].metadata.folder) THEN "Uncategorized"
                     ELSE rows[k].metadata.folder,
          docName |-> IF Falsy(rows[k].metadata.file_name) THEN "Unknown"
                      ELSE rows[k].metadata.file_name,
          text |-> rows[k].chunk_text ] ]

\* documents.select('id, file_name, folder').in('id', ids); available = FALSE
\* when the select returns no data
BuildSources(rows, available) ==
    [ k \in 1..Len(rows) |->
        LET d == rows[k].document_id
            found == available /\ Exists(d)
        IN  [ document_name |-> IF found /\ ~Falsy(docs[d].file_name)
                                THEN docs[d].file_name ELSE "Unknown",
              folder |-> IF found /\ ~Falsy(docs[d].folder) THEN docs[d].folder
                         ELSE IF ~Falsy(rows[k].metadata.folder)
                              THEN rows[k].metadata.folder
                         ELSE "Uncategorized",
              similarity |-> rows[k].similarity ] ]

NoResultsResponse ==
    "I don't have any information to answer that question. Could you upload more relevant documents or rephrase your question?"
GeneratedAnswer == "answer"
QueryTexts == { <<"a">>, <<"e">>, <<"z">> }

Message(c, u, role, content, sources) ==
    [ conversation_id |-> c, user_id |-> u, role |-> role, content |-> content,
      sources |-> sources ]

UserMessages == SelectSeq(messages, LAMBDA m : m.role = "user")

\* ChatInterface.handleSubmit: store the question, then invoke query-rag
Submit(c, text) ==
    /\ query.pc = "idle"
    /\ Len(UserMessages) < MaxQueries
    /\ messages' = Append(messages, Message(c, conversations[c], "user", text, <<>>))
    /\ query' = [IdleQuery EXCEPT !.pc = "lookup", !.conversation_id = c, !.query = text]
    /\ UNCHANGED <<conversations, docs, chunks, nextDoc, runs, deleting, response, chunker>>

\* the outer catch: a structured error, nothing stored
QueryFails(msg) ==
    /\ query' = [query EXCEPT !.pc = "idle", !.response = [kind |-> "error", error |-> msg]]
    /\ UNCHANGED <<conversations, messages, docs, chunks, nextDoc, runs, deleting, response,
                 chunker>>

\* conversation lookup and the embedding of the question
Lookup ==
    /\ query.pc = "lookup"
    /\ \E outcome \in {"ok", "no conversation", "no embedding"} :
         IF outcome = "no conversation" THEN QueryFails("conversation lookup failed")
         ELSE IF outcome = "no embedding" THEN QueryFails("Failed to generate query embedding")
         ELSE /\ query' = [query EXCEPT !.pc = "search",
                                        !.userId = conversations[query.conversation_id]]
              /\ UNCHANGED <<conversations, messages, docs, chunks, nextDoc, runs, deleting, response,
                 chunker>>

SearchWithoutShortCircuit ==
    /\ query.pc = "search"
    /\ \/ QueryFails("search failed")
       \/ \E rows \in search_chunks(Embed(query.query), InitialMatchThreshold,
                                    InitialMatchCount, query.userId) :
            /\ query' = [query EXCEPT !.pc = "documents", !.chunks = rows,
                           !.rerankedChunks = Rerank(rows, RerankThreshold, TopChunksToUse),
                           !.context = BuildContext(
                               Rerank(rows, RerankThreshold, TopChunksToUse))]
            /\ UNCHANGED <<conversations, messages, docs, chunks, nextDoc, runs,
                           deleting, response, chunker>>

SearchShortCircuitsAfterRerank ==
    /\ query.pc = "search"
    /\ \/ QueryFails("search failed")
       \/ \E rows \in search_chunks(Embed(query.query), InitialMatchThreshold,
                                    InitialMatchCount, query.userId) :
            IF Len(Rerank(rows, RerankThreshold, TopChunksToUse)) = 0
            THEN /\ messages' = Append(messages,
                        Message(query.conversation_id, query.userId, "assistant",
                                NoResultsResponse, <<>>))
                 /\ query' = [query EXCEPT !.pc = "idle",
                                !.response = [kind |-> "answer", answer |-> NoResultsResponse,
                                              sources |-> <<>>]]
                 /\ UNCHANGED <<conversations, docs, chunks, nextDoc, runs, deleting, response, chunker>>
            ELSE /\ query' = [query EXCEPT !.pc = "documents", !.chunks = rows,
                                !.rerankedChunks = Rerank(rows, RerankThreshold, TopChunksToUse),
                                !.context = BuildContext(
                                    Rerank(rows, RerankThreshold, TopChunksToUse))]
                 /\ UNCHANGED <<conversations, messages, docs, chunks, nextDoc, runs,
                                deleting, response, chunker>>

\* search_chunks, the no-results answer, rerank and context
Search ==
    /\ query.pc = "search"
    /\ \/ QueryFails("search failed")
       \/ \E rows \in search_chunks(Embed(query.query), InitialMatchThreshold,
                                    InitialMatchCount, query.userId) :
            IF Len(rows) = 0
            THEN /\ messages' = Append(messages,
                        Message(query.conversation_id, query.userId, "assistant",
                                NoResultsResponse, <<>>))
                 /\ query' = [query EXCEPT !.pc = "idle",
                                !.response = [kind |-> "answer", answer |-> NoResultsResponse,
                                              sources |-> <<>>]]
                 /\ UNCHANGED <<conversations, docs, chunks, nextDoc, runs, deleting, response, chunker>>
            ELSE /\ query' = [query EXCEPT !.pc = "documents", !.chunks = rows,
                                !.rerankedChunks = Rerank(rows, RerankThreshold, TopChunksToUse),
                                !.context = BuildContext(
                                    Rerank(rows, RerankThreshold, TopChunksToUse))]
                 /\ UNCHANGED <<conversations, messages, docs, chunks, nextDoc, runs,
                                deleting, response, chunker>>

\* the documents of the reranked chunks, for the source list
Documents ==
    /\ query.pc = "documents"
    /\ \E available \in BOOLEAN :
         query' = [query EXCEPT !.pc = "generate",
                                !.sources = BuildSources(query.rerankedChunks, available)]
    /\ UNCHANGED <<conversations, messages, docs, chunks, nextDoc, runs, deleting, response,
                 chunker>>

GenerateStoresNoSources ==
    /\ query.pc = "generate"
    /\ \/ QueryFails("Failed to generate answer: 500")
       \/ /\ messages' = Append(messages,
                 Message(query.conversation_id, query.userId, "assistant",
                         GeneratedAnswer, <<>>))
          /\ query' = [query EXCEPT !.pc = "idle",
                         !.response = [kind |-> "answer", answer |-> GeneratedAnswer,
                                       sources |-> query.sources]]
          /\ UNCHANGED <<conversations, docs, chunks, nextDoc, runs, deleting, response, chunker>>

\* the completion call and the assistant message
Generate ==
    /\ query.pc = "generate"
    /\ \/ QueryFails("Failed to generate answer: 500")
       \/ /\ messages' = Append(messages,
                 Message(query.conversation_id, query.userId, "assistant",
                         GeneratedAnswer, query.sources))
          /\ query' = [query EXCEPT !.pc = "idle",
                         !.response = [kind |-> "answer", answer |-> GeneratedAnswer,
                                       sources |-> query.sources]]
          /\ UNCHANGED <<conversations, docs, chunks, nextDoc, runs, deleting, response, chunker>>

(* A store for the questions: document 1 of u1 ingested by the staged run,   *)
(* document 2 of u2 ingested by the earlier revision on a request of user u. *)

StoreDocIds == 1..(MaxDocs + 1)

ReadyDocument(u, name, type, text, chunkCount, folder, progress, stage) ==
    Merge(NewDocument(u, name, type),
          [ status |-> "ready", chunk_count |-> chunkCount, text_length |-> Len(text),
            folder |-> folder, processing_progress |-> progress,
            processing_stage |-> stage ])

StagedRows(d, u, name, folder, texts) ==
    { [ document_id |-> d, user_id |-> u, chunk_text |-> texts[k],
        chunk_index |-> k - 1, token_count |-> TokenCount(texts[k]),
        embedding |-> Embed(texts[k]), folder |-> folder,
        parent_folder |-> NullText,
        metadata |-> [file_name |-> name, folder |-> folder] ] : k \in 1..Len(texts) }

LegacyRows(d, u, name, texts) ==
    { [ document_id |-> d, user_id |-> u, chunk_text |-> texts[k],
        chunk_index |-> k - 1, token_count |-> TokenCount(texts[k]),
        embedding |-> Embed(texts[k]), folder |-> NullText,
        parent_folder |-> NullText,
        metadata |-> [file_name |-> name, folder |-> NullText] ] : k \in 1..Len(texts) }

QueryInit ==
    /\ \E u \in Users :
         LET staged == chunkText(TextSeven, ChunkSize, ChunkOverlap)
             legacy == chunkText(TextSeven, LegacyChunkSize, LegacyChunkOverlap)
         IN  /\ docs = [d \in StoreDocIds |->
                          IF d = 1
                          THEN ReadyDocument("u1", "a.md", TextPlain, TextSeven, Len(staged),
                                             "Strategy", ProgressComplete, "complete")
                          ELSE ReadyDocument("u2", "a.md", TextPlain, TextSeven, Len(legacy),
                                             NullText, 0, "pending")]
             /\ chunks = SetToBag(StagedRows(1, "u1", "a.md", "Strategy", staged)
                                  \cup LegacyRows(2, u, "a.md", legacy))
    /\ nextDoc = MaxDocs + 2
    /\ runs = [r \in RunIds |-> IdleRun]
    /\ deleting = {}
    /\ conversations = [c \in ConvIds |-> IF c = "c1" THEN "u1" ELSE "u2"]
    /\ messages = <<>>
    /\ query = IdleQuery
    /\ response = NoResponse
    /\ chunker = IdleChunker

QueryNext ==
    \/ \E c \in ConvIds, text \in QueryTexts : Submit(c, text)
    \/ Lookup
    \/ Search
    \/ Documents
    \/ Generate
    \/ \E d \in StoreDocIds : DeleteChunks(d)
    \/ \E d \in StoreDocIds : DeleteDocument(d)

SpecQuery == QueryInit /\ [][QueryNext]_vars

(* the steps of run r; a run goes on whenever its awaited call returns *)
RunStep(r) ==
    Begin(r) \/ Extract(r) \/ Chunk(r) \/ UpdateProgress(r) \/ EmbedBatch(r) \/ Finish(r)

\* the same operations with the requests of one client: one owner, one process
\* request at a time
FairNext ==
    \/ \E name \in FileNames, type \in FileTypes : CreateDocument("u1", name, type)
    \/ \E d \in DocIds, c \in Contents : StartProcessing(1, d, c)
    \/ \E r \in RunIds : RunStep(r)
    \/ \E d \in DocIds : DeleteChunks(d)
    \/ \E d \in DocIds : DeleteDocument(d)
    \/ \E d \in DocIds : Retry(d)

FairSpec == Init /\ [][FairNext]_vars /\ \A r \in RunIds : WF_vars(RunStep(r))

----------------------------------------------------------------------------
(* the reranking of query-rag on its own *)

CandidateSimilarities == {90, 50, 30, 28, 27, 20}

\* a candidate of the search: id is its place in the retrieval order
Candidates(sims) == [k \in 1..Len(sims) |-> [id |-> k, similarity |-> sims[k]]]

ShortLists == UNION { [1..n -> CandidateSimilarities] : n \in 0..MaxCandidates }

LongLists ==
    { [k \in 1..n |-> IF k <= m THEN 90 ELSE low] :
        n \in (MaxCandidates + 1)..MaxLongCandidates, m \in 0..MaxLongCandidates,
        low \in {28, 27} }

RerankInputs == { Candidates(sims) : sims \in ShortLists \cup LongLists }

RerankInit ==
    /\ docs = [d \in DocIds |-> NoDoc]
    /\ chunks = EmptyBag
    /\ nextDoc = 1
    /\ runs = [r \in RunIds |-> IdleRun]
    /\ deleting = {}
    /\ conversations = [c \in ConvIds |-> NullText]
    /\ messages = <<>>
    /\ response = NoResponse
    /\ chunker = IdleChunker
    /\ \E found \in RerankInputs : query = [IdleQuery EXCEPT !.pc = "found", !.chunks = found]

\* Step 3 of the handler applied to the candidates
RerankStep ==
    /\ query.pc = "found"
    /\ query' = [query EXCEPT !.pc = "reranked",
                   !.rerankedChunks = Rerank(query.chunks, RerankThreshold, TopChunksToUse)]
    /\ UNCHANGED <<conversations, messages, docs, chunks, nextDoc, runs, deleting, response,
                 chunker>>

SpecRerank == RerankInit /\ [][RerankStep]_vars

----------------------------------------------------------------------------
(* chunkText on its own, one iteration of its loop per step *)

Letters == <<"a", "b", "c", "d", "e", "f", "g", "h">>

\* the character of position k that is not a space: no two positions of a
\* text hold the same one, so that no word occurs twice
Letter(k) == Letters[((k - 1) % Len(Letters)) + 1]

\* every text of up to MaxChunkerText characters, a space or a letter at each
ChunkerTexts ==
    UNION { { [k \in 1..n |-> IF k \in S THEN " " ELSE Letter(k)] : S \in SUBSET (1..n) }
            : n \in 0..MaxChunkerText }

ChunkerInit ==
    /\ docs = [d \in DocIds |-> NoDoc]
    /\ chunks = EmptyBag
    /\ nextDoc = 1
    /\ runs = [r \in RunIds |-> IdleRun]
    /\ deleting = {}
    /\ NoChat
    /\ response = NoResponse
    /\ \E text \in ChunkerTexts, chunkSize \in 1..MaxWindow :
         \E overlap \in 0..(chunkSize - 1) :
           chunker = [ pc |-> "loop", text |-> text, chunkSize |-> chunkSize,
                       overlap |-> overlap, words |-> Split(text), i |-> 0,
                       chunks |-> <<>> ]

ChunkerStepFullStride ==
    /\ chunker.pc = "loop"
    /\ IF chunker.i < Len(chunker.words)
       THEN LET chunk == Join(Slice(chunker.words, chunker.i,
                                    chunker.i + chunker.chunkSize))
            IN  chunker' = [chunker EXCEPT
                              !.chunks = IF Len(chunk) > 0 THEN Append(@, chunk) ELSE @,
                              !.i = @ + chunker.chunkSize]
       ELSE chunker' = [chunker EXCEPT !.pc = "done"]
    /\ UNCHANGED <<chat, docs, chunks, nextDoc, runs, deleting, response>>

\* one test of the loop condition and, when it holds, one pass of the body
ChunkerStep ==
    /\ chunker.pc = "loop"
    /\ IF chunker.i < Len(chunker.words)
       THEN LET chunk == Join(Slice(chunker.words, chunker.i,
                                    chunker.i + chunker.chunkSize))
            IN  chunker' = [chunker EXCEPT
                              !.chunks = IF Len(chunk) > 0 THEN Append(@, chunk) ELSE @,
                              !.i = @ + (chunker.chunkSize - chunker.overlap)]
       ELSE chunker' = [chunker EXCEPT !.pc = "done"]
    /\ UNCHANGED <<chat, docs, chunks, nextDoc, runs, deleting, response>>

SpecChunker == ChunkerInit /\ [][ChunkerStep]_vars

----------------------------------------------------------------------------
(* process-document as an endpoint: the dispatch on the fields of a request *)

\* a request without documentId
NoDocumentId == 0

\* a create request may carry content; of a request with documentId the
\* handler reads the documentId and the content only
CreateRequests ==
    [ documentId : {NoDocumentId},
      content : {NoContent, [text |-> TextSeven, parses |-> TRUE]},
      userId : Users, fileName : FileNames, fileType : FileTypes ]

ProcessRequests ==
    [ documentId : DocIds, content : Contents \cup {NoContent},
      userId : {"u1"}, fileName : FileNames, fileType : {TextPlain} ]

Requests == CreateRequests \cup ProcessRequests

\* the content field is present and not the empty string; what it decodes to
\* can still be empty (atob skips whitespace, the decoder drops a byte-order mark)
HasContent(req) == req.content # NoContent

\* the insert of stage 1 fails: the outer catch answers 500
CreateFails ==
    /\ response' = ServerError("insert failed")
    /\ UNCHANGED <<chat, docs, chunks, nextDoc, runs, deleting, chunker>>

\* a documentId without content: neither stage applies
Reject ==
    /\ response' = InvalidRequest
    /\ UNCHANGED <<chat, docs, chunks, nextDoc, runs, deleting, chunker>>

ProcessDocument(req) ==
    IF req.documentId = NoDocumentId
    THEN \/ CreateDocument(req.userId, req.fileName, req.fileType)
         \/ CreateFails
    ELSE IF HasContent(req)
         THEN \E r \in RunIds : StartProcessing(r, req.documentId, req.content)
         ELSE Reject

RequestNext ==
    \/ \E req \in Requests : ProcessDocument(req)
    \/ \E r \in RunIds : RunStep(r)

SpecRequests == Init /\ [][RequestNext]_vars

----------------------------------------------------------------------------
(* Properties *)

RunsOn(d) == { r \in RunIds : runs[r].pc # "idle" /\ runs[r].documentId = d }

\* at most one run has been launched for document d
OneRun(d) == Cardinality(RunsOn(d)) <= 1

StageIndex(stage) == CHOOSE k \in 1..Len(Stages) : Stages[k] = stage

Terminated(r) == runs[r].pc \in {"done", "failed"}

\* C1: while one run works on a document, every change of processing_stage
\* moves it to the next stage of pending, extracting, chunking, embedding,
\* complete: no stage is skipped and none is taken again.
C1_StageOrder ==
    [][\A d \in DocIds :
         (OneRun(d)' /\ Exists(d) /\ Exists(d)'
            /\ docs'[d].processing_stage # docs[d].processing_stage)
         => StageIndex(docs'[d].processing_stage) = StageIndex(docs[d].processing_stage) + 1]_vars

C1_Witness ==
    /\ Exists(1) /\ OneRun(1)
    /\ docs[1].processing_stage = "complete"
    /\ docs[1].chunk_count > BatchSize

\* C2: while one run works on a document, processing_progress never
\* decreases, and the step that ends a run successfully leaves
\* processing_progress = 100 and status = ready.
C2_ProgressMonotone ==
    [][/\ \A d \in DocIds :
            (OneRun(d)' /\ Exists(d) /\ Exists(d)')
            => docs'[d].processing_progress >= docs[d].processing_progress
       /\ \A r \in RunIds :
            (runs[r].pc # "done" /\ runs'[r].pc = "done" /\ Exists(runs[r].documentId)')
            => /\ docs'[runs[r].documentId].processing_progress = ProgressComplete
               /\ docs'[runs[r].documentId].status = "ready"]_vars

C2_Witness ==
    /\ Exists(1) /\ OneRun(1)
    /\ \E r \in RunIds : runs[r].pc = "done" /\ runs[r].documentId = 1
    /\ docs[1].status = "ready"
    /\ docs[1].processing_progress = ProgressComplete
    /\ ChunkRowCount(1) > BatchSize

\* C3: the step that ends a run successfully leaves the document row with
\* status ready, stage complete, progress 100, chunk_count the number of
\* chunks of the truncated text, text_length the length of the truncated
\* text, and error_message NULL.
C3_FinalRow ==
    [][\A r \in RunIds :
         (runs[r].pc # "done" /\ runs'[r].pc = "done" /\ Exists(runs[r].documentId)')
         => LET row == docs'[runs[r].documentId] IN
              /\ row.status = "ready"
              /\ row.processing_stage = "complete"
              /\ row.processing_progress = ProgressComplete
              /\ row.chunk_count = Len(chunkText(runs[r].text, ChunkSize, ChunkOverlap))
              /\ row.text_length = Len(runs[r].text)
              /\ row.text_length <= MaxTextLength
              /\ row.error_message = NullText]_vars

\* an earlier run of the document failed, a later one ended successfully
C3_Witness ==
    /\ runs[1].pc = "failed" /\ runs[1].documentId = 1
    /\ runs[2].pc = "done" /\ runs[2].documentId = 1
    /\ docs[1].status = "ready"
    /\ docs[1].error_message = NullText
    /\ docs[1].chunk_count > BatchSize

\* the chunk_index values of document d are 0..chunk_count-1, each once
Contiguous(d) ==
    /\ ChunkRowCount(d) = docs[d].chunk_count
    /\ \A k \in 0..(docs[d].chunk_count - 1) :
         \E row \in ChunksOf(d) : row.chunk_index = k /\ chunks[row] = 1
    /\ \A row \in ChunksOf(d) : row.chunk_index \in 0..(docs[d].chunk_count - 1)

\* C4: whenever a document is ready (and not being deleted), its chunk rows
\* have the chunk_index values 0..chunk_count-1, each exactly once.
C4_ContiguousWhenReady ==
    \A d \in DocIds : (docs[d].status = "ready" /\ d \notin deleting) => Contiguous(d)

\* C5: the step in which a run fails on an existing document leaves
\* status = error and an error_message, and does not touch
\* processing_progress.
C5_FailureKeepsProgress ==
    [][\A r \in RunIds :
         (runs[r].pc # "failed" /\ runs'[r].pc = "failed" /\ Exists(runs[r].documentId))
         => LET d == runs[r].documentId IN
              /\ docs'[d].status = "error"
              /\ docs'[d].error_message # NullText
              /\ docs'[d].processing_progress = docs[d].processing_progress]_vars

\* a run failed at its second batch
C5_Witness ==
    /\ Exists(1) /\ OneRun(1)
    /\ \E r \in RunIds : runs[r].pc = "failed" /\ runs[r].documentId = 1
    /\ docs[1].status = "error"
    /\ docs[1].error_message = MsgRateLimit
    /\ docs[1].processing_progress > ProgressEmbedding

\* C6: every launched run terminates, and the step that ends a run on an
\* existing document leaves its status ready or error.
C6_RunsEnd ==
    /\ \A r \in RunIds : (runs[r].pc # "idle") ~> Terminated(r)
    /\ [][\A r \in RunIds :
            (~Terminated(r) /\ Terminated(r)' /\ Exists(runs[r].documentId))
            => docs'[runs[r].documentId].status \in {"ready", "error"}]_vars

\* a run that stored a batch has failed at the next one
C6_Witness ==
    /\ Exists(1)
    /\ runs[1].pc = "failed" /\ runs[1].documentId = 1
    /\ docs[1].status = "error"
    /\ docs[1].error_message = MsgInsert
    /\ ChunkRowCount(1) = BatchSize

RetryOf(row) == Merge(row, [status |-> "processing", error_message |-> NullText])

RowsOf(d) == [row \in ChunksOf(d) |-> chunks[row]]

\* C7: once a document is ready or error, only a user retry or delete
\* changes its status, stage, progress or chunk rows.
C7_TerminalStatus ==
    [][\A d \in DocIds :
         (/\ docs[d].status \in {"ready", "error"}
          /\ d \notin deleting /\ d \notin deleting'
          /\ docs'[d] # RetryOf(docs[d]))
         => /\ docs'[d].status = docs[d].status
            /\ docs'[d].processing_stage = docs[d].processing_stage
            /\ docs'[d].processing_progress = docs[d].processing_progress
            /\ RowsOf(d)' = RowsOf(d)]_vars

\* C8: every chunk a question gets from the search, puts in its context or
\* lists in its sources is a row of the user who owns the conversation.
C8_OnlyOwnChunks ==
    query.pc \in {"documents", "generate"} =>
        /\ query.userId = conversations[query.conversation_id]
        /\ \A k \in 1..Len(query.chunks) : query.chunks[k].id[1].user_id = query.userId
        /\ \A k \in 1..Len(query.rerankedChunks) :
             /\ query.rerankedChunks[k].id[1].user_id = query.userId
             /\ query.context[k].text = query.rerankedChunks[k].chunk_text
        /\ Len(query.context) = Len(query.rerankedChunks)
        /\ query.pc = "generate" => Len(query.sources) = Len(query.rerankedChunks)

\* a question has its sources while another user's chunk matches it as well
C8_Witness ==
    /\ query.pc = "generate"
    /\ Len(query.sources) > 0
    /\ \E row \in DOMAIN chunks :
         /\ row.user_id # query.userId
         /\ Similarity(row.embedding, Embed(query.query)) >= RerankThreshold

\* C9: the document_id of every stored chunk names a document whose user_id
\* is the chunk's user_id, whatever userId the process request carried.
C9_ChunkOwnerIsDocumentOwner ==
    \A row \in DOMAIN chunks :
        /\ Exists(row.document_id)
        /\ docs[row.document_id].user_id = row.user_id

\* C10: once the row of a document is deleted, no chunk row names it, however
\* the delete interleaves with the runs of the document.
C10_NoOrphanChunks ==
    \A d \in DocIds : ~Exists(d) => ChunksOf(d) = {}

\* the document is deleted while a run that has stored a batch is at its next
C10_Witness ==
    /\ nextDoc > 1 /\ ~Exists(1)
    /\ ChunksOf(1) = {}
    /\ \E r \in RunIds :
         /\ runs[r].documentId = 1
         /\ runs[r].pc = "embed"
         /\ runs[r].i >= BatchSize

\* C11: a document that was retried after a failed run eventually is ready or
\* error again (or is deleted by its user).
C11_RetryReachesTerminal ==
    \A d \in DocIds :
        (/\ Exists(d)
         /\ docs[d].status = "processing"
         /\ \E r \in RunIds : runs[r].pc = "failed" /\ runs[r].documentId = d)
        ~> (~Exists(d) \/ docs[d].status \in {"ready", "error"})

\* C12: a create request that is answered with success has created exactly
\* one document row, in status processing, stage pending, progress 0, and the
\* answer carries its id; a process request with documentId and content is
\* answered 'Processing started' in the step that launches the run, before
\* the run has written anything.
C12_CreateThenAcknowledge ==
    [][\A req \in Requests :
         ProcessDocument(req) =>
           IF req.documentId = NoDocumentId
           THEN \/ /\ response'.status = 200
                   /\ response'.documentId = nextDoc
                   /\ ~Exists(nextDoc)
                   /\ docs' = [docs EXCEPT ![nextDoc] = docs'[nextDoc]]
                   /\ docs'[nextDoc].status = "processing"
                   /\ docs'[nextDoc].processing_stage = "pending"
                   /\ docs'[nextDoc].processing_progress = 0
                   /\ docs'[nextDoc].user_id = req.userId
                \/ /\ response'.status = 500
                   /\ docs' = docs
           ELSE IF HasContent(req)
                THEN /\ response' = Started
                     /\ docs' = docs /\ chunks' = chunks
                     /\ \E r \in RunIds :
                          /\ runs[r].pc = "idle"
                          /\ runs'[r].pc = "start"
                          /\ runs'[r].documentId = req.documentId
                ELSE response'.status = 400 /\ docs' = docs /\ runs' = runs]_vars

\* the acknowledgement is the last answer while the run it launched is at its
\* embedding loop and the document is still in status processing
C12_Witness ==
    /\ response = Started
    /\ Exists(1) /\ docs[1].status = "processing"
    /\ docs[1].processing_stage = "embedding"
    /\ \E r \in RunIds : runs[r].documentId = 1 /\ runs[r].pc = "embed"

\* C13: a request that carries the metadata and the content of a new document
\* and no documentId creates the document row and launches a run for it.
C13_CombinedRequestLaunches ==
    [][\A req \in Requests :
         (/\ req.documentId = NoDocumentId
          /\ HasContent(req)
          /\ ProcessDocument(req)
          /\ response'.status = 200)
         => /\ docs'[nextDoc].status = "processing"
            /\ \E r \in RunIds :
                 /\ runs[r].pc = "idle"
                 /\ runs'[r].pc = "start"
                 /\ runs'[r].documentId = nextDoc]_vars

\* C14: when the search of a question finds no candidate, the handler stores
\* one assistant message with the fixed no-information answer and no sources,
\* returns that answer with an empty source list and ends without reaching
\* the completion call; with candidates it stores nothing at this step.
C14_NoResultsShortCircuit ==
    [][(query.pc = "search" /\ query'.pc # "search") =>
         \/ /\ query'.pc = "idle"
            /\ query'.response.kind = "error"
            /\ messages' = messages
         \/ IF Matching(Embed(query.query), InitialMatchThreshold, query.userId) = {}
            THEN /\ query'.pc = "idle"
                 /\ query'.response = [kind |-> "answer", answer |-> NoResultsResponse,
                                       sources |-> <<>>]
                 /\ messages' = Append(messages,
                        Message(query.conversation_id, query.userId, "assistant",
                                NoResultsResponse, <<>>))
            ELSE /\ query'.pc = "documents"
                 /\ Len(query'.chunks) > 0
                 /\ messages' = messages]_vars

\* a question was answered with the no-information answer while the store
\* holds chunks of another user
C14_Witness ==
    /\ query.pc = "idle"
    /\ query.response = [kind |-> "answer", answer |-> NoResultsResponse, sources |-> <<>>]
    /\ Len(messages) = 2
    /\ messages[1].role = "user"
    /\ messages[2] = Message(query.conversation_id, query.userId, "assistant",
                             NoResultsResponse, <<>>)
    /\ \E row \in DOMAIN chunks : row.user_id # query.userId

\* C15: the step that answers a question successfully finds the question as
\* the last message of the conversation and appends one assistant message
\* whose content and sources are the answer and sources returned.
C15_QuestionThenAnswer ==
    [][(query.pc = "generate" /\ query'.pc = "idle" /\ query'.response.kind = "answer") =>
         /\ Len(messages) > 0
         /\ messages[Len(messages)] =
              Message(query.conversation_id, conversations[query.conversation_id],
                      "user", query.query, <<>>)
         /\ messages' = Append(messages,
                Message(query.conversation_id, conversations[query.conversation_id],
                        "assistant", query'.response.answer, query'.response.sources))
         /\ query'.response.sources = query.sources
         /\ Len(query.sources) = Len(query.rerankedChunks)]_vars

\* a question and its answer with sources are the two messages stored
C15_Witness ==
    /\ query.pc = "idle"
    /\ Len(messages) = 2
    /\ messages[1].role = "user" /\ messages[1].content = query.query
    /\ messages[2].role = "assistant"
    /\ messages[2].content = GeneratedAnswer
    /\ Len(messages[2].sources) > 0
    /\ query.response = [kind |-> "answer", answer |-> messages[2].content,
                         sources |-> messages[2].sources]

\* C16: when a question has ended with an error, the answer is an error
\* object and no message of the question is left in the conversation: every
\* stored question is followed by its answer.
C16_FailureStoresNothing ==
    (query.pc = "idle" /\ query.response.kind = "error") =>
        /\ DOMAIN query.response = {"kind", "error"}
        /\ \A k \in 1..Len(messages) :
             messages[k].role = "user" =>
                /\ k < Len(messages)
                /\ messages[k + 1].role = "assistant"
                /\ messages[k + 1].conversation_id = messages[k].conversation_id

\* C17: the classify-topic endpoint answers every outcome of its completion
\* call with success and one non-empty folder, "Uncategorized" on every
\* failure; the run takes "Uncategorized" whenever its call fails, and the
\* step after stage chunking always goes on to the embedding stage with a
\* non-empty folder.
C17_ClassificationNeverFails ==
    /\ \A o \in GatewayOutcomes :
         /\ classify_topic(o).status = 200
         /\ classify_topic(o).folder \notin {"", NullText}
         /\ (o.kind # "content" \/ Trim(o.content) = <<>>)
              => classify_topic(o).folder = Uncategorized
    /\ \A call \in ClassifyCalls :
         /\ ClassifyFolder(call) \notin {"", NullText}
         /\ call.kind # "answered" => ClassifyFolder(call) = Uncategorized
    /\ [][\A r \in RunIds :
            (runs[r].pc = "chunking" /\ runs'[r].pc # "chunking")
            => /\ runs'[r].pc = "embedding"
               /\ runs'[r].folder \in ClassifyResults
               /\ runs'[r].folder \notin {"", NullText}
               /\ Exists(runs[r].documentId) =>
                    /\ docs'[runs[r].documentId].processing_stage = "embedding"
                    /\ docs'[runs[r].documentId].status = docs[runs[r].documentId].status
                    /\ docs'[runs[r].documentId].error_message =
                         docs[runs[r].documentId].error_message]_vars

\* a document became ready in the fallback folder
C17_Witness ==
    /\ Exists(1) /\ OneRun(1)
    /\ docs[1].status = "ready"
    /\ docs[1].folder = Uncategorized
    /\ \E o \in GatewayOutcomes : o.kind = "throws" /\ classify_topic(o).folder = docs[1].folder

Similarities(rows) == [k \in 1..Len(rows) |-> rows[k].similarity]

\* x comes before y in the reranked order
Before(x, y) ==
    \/ x.similarity > y.similarity
    \/ x.similarity = y.similarity /\ x.id < y.id

\* C18: the reranked list holds only candidates of similarity >= 0.28, in
\* descending similarity with ties in retrieval order, it is the first 8 of
\* them in that order, and [0.9, 0.5, 0.3, 0.2] gives [0.9, 0.5, 0.3].
C18_Rerank ==
    query.pc = "reranked" =>
        LET found == query.chunks
            out == query.rerankedChunks
            kept == { k \in 1..Len(found) : found[k].similarity >= RerankThreshold }
            used == { out[k].id : k \in 1..Len(out) }
        IN  /\ \A k \in 1..Len(out) : out[k].id \in kept /\ out[k] = found[out[k].id]
            /\ \A i, j \in 1..Len(out) : i < j => Before(out[i], out[j])
            /\ Len(out) = Min(TopChunksToUse, Cardinality(kept))
            /\ \A k \in kept \ used : \A j \in 1..Len(out) : Before(out[j], found[k])
            /\ Similarities(found) = <<90, 50, 30, 20>> => Similarities(out) = <<90, 50, 30>>

\* more candidates pass the threshold than are used, among them equal ones
C18_Witness ==
    /\ query.pc = "reranked"
    /\ Len(query.chunks) > TopChunksToUse
    /\ Len(query.rerankedChunks) = TopChunksToUse
    /\ query.rerankedChunks[TopChunksToUse].similarity = RerankThreshold
    /\ query.chunks[Len(query.chunks)].similarity = RerankThreshold

CeilDiv(n, d) == (n + d - 1) \div d

\* the words of a text: the maximal runs of non-space characters
WordCount(text) == Cardinality({ k \in 1..Len(Split(text)) : Len(Split(text)[k]) > 0 })

\* the passes of the loop body a finished call has made
ChunkerSteps == chunker.i \div (chunker.chunkSize - chunker.overlap)

\* C19 as stated: for a text of N >= 1 words the chunker ends after
\* ceil(N / (W - O)) passes and returns exactly ceil(N / (W - O)) chunks.
C19_ChunkCountByWords ==
    (chunker.pc = "done" /\ WordCount(chunker.text) >= 1) =>
        LET expected == CeilDiv(WordCount(chunker.text), chunker.chunkSize - chunker.overlap)
        IN  ChunkerSteps = expected /\ Len(chunker.chunks) = expected

\* C19, amended: with L the length of text.split(/\s+/), which has an empty
\* first (last) element when the text starts (ends) with whitespace, the
\* chunker ends after ceil(L / (W - O)) passes and returns one chunk per pass,
\* except for a pass whose window is an empty element alone, which only the
\* first and the last pass can be; for a text of N >= 1 words that neither
\* starts nor ends with whitespace that is ceil(N / (W - O)) passes and chunks.
C19_ChunkCountBySplit ==
    chunker.pc = "done" =>
        LET step == chunker.chunkSize - chunker.overlap
            L == Len(chunker.words)
            passes == CeilDiv(L, step)
            emptyPasses == { p \in 1..passes :
                               Slice(chunker.words, (p - 1) * step,
                                     (p - 1) * step + chunker.chunkSize) = << <<>> >> }
        IN  /\ chunker.words = Split(chunker.text)
            /\ ChunkerSteps = passes
            /\ emptyPasses \subseteq {1, passes}
            /\ Len(chunker.chunks) = passes - Cardinality(emptyPasses)
            /\ chunker.chunks = chunkText(chunker.text, chunker.chunkSize, chunker.overlap)
            /\ (/\ Len(chunker.text) > 0
                /\ ~IsSpace(chunker.text[1])
                /\ ~IsSpace(chunker.text[Len(chunker.text)]))
               => /\ L = WordCount(chunker.text)
                  /\ Len(chunker.chunks) = CeilDiv(WordCount(chunker.text), step)

\* a text that starts with whitespace has given one chunk more than its words ask for
C19_Witness ==
    /\ chunker.pc = "done"
    /\ WordCount(chunker.text) >= 2
    /\ IsSpace(chunker.text[1])
    /\ Len(chunker.chunks) =
         CeilDiv(WordCount(chunker.text), chunker.chunkSize - chunker.overlap) + 1

\* C20: no document is ready with chunk_count = 0 (the chunker returns at
\* least one chunk for every text it is given).
C20_ReadyHasChunks ==
    \A d \in DocIds : docs[d].status = "ready" => docs[d].chunk_count >= 1

\* the row the loop stores for the chunk at position k (from 1) of run r
StoredFor(r, k, row) ==
    /\ row.document_id = runs[r].documentId
    /\ row.chunk_index = k - 1
    /\ row.chunk_text = runs[r].chunks[k]
    /\ row.embedding = Embed(runs[r].chunks[k])

\* C21: the embedding loop takes the chunks in consecutive batches of at most
\* BatchSize, makes one request to the embedding service per batch, and
\* stores every chunk of the batch with its own position and the vector of its
\* own text; a run that ends successfully has made ceil(n / BatchSize)
\* requests and, when it was the only run of its document and nothing was
\* deleted, the document has exactly one row per chunk, in chunk order.
C21_OneCallPerBatch ==
    [][\A r \in RunIds :
         LET d == runs[r].documentId
             n == Len(runs[r].chunks)
             i == runs[r].i
             size == Min(BatchSize, n - i)
         IN  /\ (runs[r].pc = "embed" /\ runs'[r].pc = "embedding") =>
                  /\ i = BatchSize * runs[r].calls
                  /\ runs'[r].calls = runs[r].calls + 1
                  /\ runs'[r].i = i + BatchSize
                  /\ size \in 1..BatchSize
                  /\ Batch(r) = SubSeq(runs[r].chunks, i + 1, i + size)
                  /\ BagCardinality(chunks') = BagCardinality(chunks) + size
                  /\ \A k \in (i + 1)..(i + size) :
                       \E row \in DOMAIN chunks' :
                           /\ StoredFor(r, k, row)
                           /\ CopiesIn(row, chunks') = CopiesIn(row, chunks) + 1
             /\ (runs[r].pc = "embedding" /\ runs'[r].pc = "done") =>
                  /\ runs[r].calls = CeilDiv(n, BatchSize)
                  /\ (OneRun(d) /\ Exists(d) /\ d \notin deleting) =>
                       /\ ChunkRowCount(d) = n
                       /\ \A k \in 1..n :
                            \E row \in ChunksOf(d) : StoredFor(r, k, row) /\ chunks[row] = 1]_vars

\* the only run of a document has ended after two batches
C21_Witness ==
    /\ Exists(1) /\ OneRun(1) /\ 1 \notin deleting
    /\ \E r \in RunIds : runs[r].pc = "done" /\ runs[r].documentId = 1
    /\ docs[1].chunk_count = BatchSize + 1
    /\ \E row \in ChunksOf(1) :
         /\ row.chunk_index = BatchSize
         /\ row.chunk_text = <<"g">>
         /\ row.embedding = Embed(<<"g">>)

\* msg.includes('corrupted') || msg.includes('empty')
IncludesCorruptedOrEmpty(msg) == msg \in {MsgPdfParse, MsgPdfEmpty, MsgDocxParse, MsgDocxEmpty}

\* C22: a run whose document is a PDF and whose buffer the PDF parser rejects
\* (a corrupted or zero-byte buffer) leaves the extraction through the catch
\* block: the run ends as failed, and the document, if its row exists, has
\* status error and an error_message that contains "corrupted" or "empty".
C22_CorruptedPdfFails ==
    [][\A r \in RunIds :
         (/\ runs[r].pc = "extracting"
          /\ runs[r].actualFileType = TypePdf
          /\ ~runs[r].content.parses
          /\ runs'[r] # runs[r])
         => /\ runs'[r].pc = "failed"
            /\ chunks' = chunks
            /\ LET d == runs[r].documentId IN
                 Exists(d) => /\ docs'[d].status = "error"
                              /\ IncludesCorruptedOrEmpty(docs'[d].error_message)
                              /\ docs'[d].error_message = UserMessage(MsgPdfParse)]_vars

\* the run of a corrupted PDF has ended in the catch block
C22_Witness ==
    /\ Exists(1) /\ OneRun(1)
    /\ docs[1].file_type = TypePdf
    /\ \E r \in RunIds : runs[r].pc = "failed" /\ runs[r].documentId = 1
    /\ docs[1].status = "error"
    /\ docs[1].error_message = MsgPdfParse
    /\ docs[1].processing_stage = "extracting"

----------------------------------------------------------------------------
(* process-url: the whole ingestion runs inside the request; the run record  *)
(* holds the position of the handler between two of its awaits on the store  *)

\* text.length < 100, scaled down
UrlMinChars == 3

TypeUrl == "url"
UrlFileName == "example.com_a"

BodySpaced ==
    <<" ", "a", " ", " ", "b", " ", "c", " ", "d", " ", "e", " ", "f", " ", "g", "\n">>

\* what the request meets: the kind of its url, the answer of the fetch, the
\* body, whether the DOM parser accepts it and whether its text holds one of
\* the errorIndicators
UrlFetches ==
    { [kind |-> "gdoc without id", ok |-> FALSE, body |-> <<>>, parsed |-> FALSE,
       blocked |-> FALSE] }
    \cup [ kind : {"page", "gdoc"}, ok : {FALSE}, body : {<<>>}, parsed : {FALSE},
           blocked : {FALSE} ]
    \cup [ kind : {"page", "gdoc"}, ok : {TRUE}, body : {TextBlank, <<"a">>, BodySpaced},
           parsed : BOOLEAN, blocked : BOOLEAN ]

\* text.replace(/\s+/g, ' ').trim()
Collapse(text) == Join(SelectSeq(Split(text), LAMBDA w : Len(w) > 0))

\* lines 170-245: the text of the page, or the error thrown on the way
UrlText(f) ==
    IF f.kind = "gdoc without id"
    THEN Thrown("Could not extract document ID from Google Docs URL. Please ensure the URL is valid.")
    ELSE IF ~f.ok THEN Thrown("Failed to fetch URL: 404 Not Found.")
    ELSE IF f.kind = "page" /\ ~f.parsed THEN Thrown("Failed to parse HTML")
    ELSE LET text == Substring(IF f.kind = "gdoc" THEN Trim(f.body) ELSE Collapse(f.body),
                               MaxTextLength)
         IN  IF Len(text) < UrlMinChars
             THEN Thrown("Could not extract sufficient content from URL.")
             ELSE IF f.blocked
                  THEN Thrown("This URL requires JavaScript or authentication.")
                  ELSE Ok(text)

UrlDone(d, n) == [status |-> 200, success |-> TRUE, documentId |-> d, chunks |-> n]

\* the request up to the insert of the document row (and the chunking, which
\* writes nothing)
ProcessUrl(r, u, f) ==
    /\ FreeSlot(r)
    /\ LET out == UrlText(f) IN
         IF ~out.ok
         THEN /\ response' = ServerError(out.msg)
              /\ UNCHANGED <<chat, docs, chunks, nextDoc, runs, deleting, chunker>>
         ELSE \/ /\ response' = ServerError(MsgInsert)
                 /\ UNCHANGED <<chat, docs, chunks, nextDoc, runs, deleting, chunker>>
              \/ /\ nextDoc <= MaxDocs
                 /\ \E folder \in ClassifyResults :
                      /\ docs' = [docs EXCEPT ![nextDoc] =
                                    Merge(NewDocument(u, UrlFileName, TypeUrl),
                                          [folder |-> folder])]
                      /\ runs' = [runs EXCEPT ![r] =
                                    [IdleRun EXCEPT !.pc = "url", !.documentId = nextDoc,
                                                    !.userId = u, !.fileName = UrlFileName,
                                                    !.text = out.text, !.folder = folder,
                                                    !.i = 0,
                                                    !.chunks = chunkText(out.text,
                                                                 LegacyChunkSize,
                                                                 LegacyChunkOverlap)]]
                 /\ nextDoc' = nextDoc + 1
                 /\ UNCHANGED <<chat, chunks, deleting, response, chunker>>

UrlChunksToInsert(r) ==
    { [ document_id |-> runs[r].documentId,
        user_id |-> runs[r].userId,
        chunk_text |-> LegacyBatch(r)[k],
        chunk_index |-> ChunkIndex(runs[r].i, k - 1),
        token_count |-> TokenCount(LegacyBatch(r)[k]),
        embedding |-> EmbeddingData(LegacyBatch(r))[k],
        folder |-> NullText,
        parent_folder |-> NullText,
        metadata |-> [file_name |-> runs[r].fileName, source_url |-> "url"] ]
      : k \in 1..Len(LegacyBatch(r)) }

\* the catch of the handler answers 500 and writes nothing
UrlCatch(r, msg) ==
    /\ runs' = [runs EXCEPT ![r] = Ended(r, "failed")]
    /\ response' = ServerError(msg)
    /\ UNCHANGED <<chat, docs, chunks, nextDoc, deleting, chunker>>

\* one pass of the loop: embed a batch, insert it without looking at the result
UrlEmbedBatch(r) ==
    /\ runs[r].pc = "url"
    /\ runs[r].i < Len(runs[r].chunks)
    /\ \E resp \in LegacyEmbeddingResponses, stored \in BOOLEAN :
         IF resp # "ok"
         THEN stored /\ UrlCatch(r, IF resp = "500" THEN MsgLegacyEmbedding ELSE MsgFetch)
         ELSE /\ chunks' = IF ForeignKeyHolds(runs[r].documentId) /\ stored
                           THEN InsertChunks(UrlChunksToInsert(r))
                           ELSE chunks
              /\ runs' = [runs EXCEPT ![r] = [@ EXCEPT !.i = @ + LegacyBatchSize,
                                                        !.calls = @ + 1]]
              /\ UNCHANGED <<chat, docs, nextDoc, deleting, response, chunker>>

UrlFinish(r) ==
    /\ runs[r].pc = "url"
    /\ runs[r].i >= Len(runs[r].chunks)
    /\ runs' = [runs EXCEPT ![r] = Ended(r, "done")]
    /\ docs' = UpdateDocument(runs[r].documentId,
                 [ status |-> "ready",
                   chunk_count |-> Len(runs[r].chunks),
                   text_length |-> Len(runs[r].text) ])
    /\ response' = UrlDone(runs[r].documentId, Len(runs[r].chunks))
    /\ UNCHANGED <<chat, chunks, nextDoc, deleting, chunker>>

UrlNext ==
    \/ \E r \in RunIds, u \in Users, f \in UrlFetches : ProcessUrl(r, u, f)
    \/ \E r \in RunIds : UrlEmbedBatch(r)
    \/ \E r \in RunIds : UrlFinish(r)
    \/ \E d \in DocIds : DeleteChunks(d)
    \/ \E d \in DocIds : DeleteDocument(d)

SpecUrl == Init /\ [][UrlNext]_vars

\* C23: a URL ingestion that fails after it has created its document row
\* leaves the document with status error and an error_message, never with
\* status processing.
C23_UrlFailureMarksError ==
    \A r \in RunIds :
        (runs[r].pc = "failed" /\ Exists(runs[r].documentId))
        => /\ docs[runs[r].documentId].status = "error"
           /\ docs[runs[r].documentId].error_message # NullText

\* RAGConfig.progressStages.embeddingEnd
ProgressEmbeddingEnd == 95

\* the progress values of a stage
StageProgress(stage) ==
    IF stage = "pending" THEN {0}
    ELSE IF stage = "extracting" THEN {ProgressExtracting}
    ELSE IF stage = "chunking" THEN {ProgressChunking}
    ELSE IF stage = "embedding" THEN ProgressEmbedding..ProgressEmbeddingEnd
    ELSE {ProgressComplete}

\* C24: while one run works on a document, processing_progress is 0 in stage
\* pending, 10 in extracting, 33 in chunking, between 50 and 95 in embedding
\* and 100 in complete; and whatever the number of runs, every value written
\* to processing_progress is one of these.
C24_StageProgressAgree ==
    /\ [](\A d \in DocIds :
            (Exists(d) /\ OneRun(d))
            => docs[d].processing_progress \in StageProgress(docs[d].processing_stage))
    /\ [][\A d \in DocIds :
            (/\ Exists(d)'
             /\ (~Exists(d) \/ docs'[d].processing_progress # docs[d].processing_progress))
            => \E k \in 1..Len(Stages) :
                   docs'[d].processing_progress \in StageProgress(Stages[k])]_vars

\* the only run of a document is between the start and the end of the
\* embedding range
C24_Witness ==
    /\ Exists(1) /\ OneRun(1)
    /\ \E r \in RunIds : runs[r].pc = "embed" /\ runs[r].documentId = 1
    /\ docs[1].processing_stage = "embedding"
    /\ docs[1].processing_progress > ProgressEmbedding
    /\ docs[1].processing_progress < ProgressEmbeddingEnd

Prefix(d, k) ==
    /\ ChunkRowCount(d) = k
    /\ \A j \in 0..(k - 1) : \E row \in ChunksOf(d) : row.chunk_index = j /\ chunks[row] = 1
    /\ \A row \in ChunksOf(d) : row.chunk_index \in 0..(k - 1)

\* C26: a batch is stored whole in the step that obtains its embeddings,
\* before the next request to the embedding service; while a document has one
\* run and is not being deleted, its stored chunk indices are a prefix 0..k-1
\* that ends at a batch boundary (k is the loop index, or the number of chunks
\* once the last batch is stored); the step in which a run fails removes no
\* chunk, and after a failure the earlier batches are stored while status is
\* error (or processing, after a retry).
C26_BatchByBatch ==
    /\ [](\A d \in DocIds :
            (Exists(d) /\ OneRun(d) /\ d \notin deleting)
            => LET k == ChunkRowCount(d) IN
                 /\ Prefix(d, k)
                 /\ \A r \in RunsOn(d) :
                      /\ runs[r].pc \in {"start", "extracting", "chunking"} => k = 0
                      /\ runs[r].pc \in {"embedding", "embed"} =>
                           /\ runs[r].i = BatchSize * runs[r].calls
                           /\ k = Min(runs[r].i, Len(runs[r].chunks))
                           /\ docs[d].status = "processing"
                      /\ runs[r].pc = "failed" =>
                           /\ k % BatchSize = 0
                           /\ docs[d].status \in {"error", "processing"}
                      /\ runs[r].pc = "done" => k = docs[d].chunk_count)
    /\ [][\A r \in RunIds :
            /\ (runs[r].pc # "failed" /\ runs'[r].pc = "failed") => chunks' = chunks
            /\ (runs[r].pc = "embed" /\ runs'[r].pc = "embedding") =>
                 BagCardinality(chunks') = BagCardinality(chunks)
                     + Min(BatchSize, Len(runs[r].chunks) - runs[r].i)]_vars

\* the only run of a document has stored its first batch and failed at the
\* second request to the embedding service
C26_Witness ==
    /\ Exists(1) /\ OneRun(1) /\ 1 \notin deleting
    /\ \E r \in RunIds : runs[r].pc = "failed" /\ runs[r].documentId = 1
    /\ docs[1].status = "error"
    /\ docs[1].error_message = MsgEmbedding500
    /\ Prefix(1, BatchSize)

\* C27: a response of the embedding service that is not ok is reported as the
\* invalid-key error for 401, the rate-limit error for 429 and otherwise as an
\* embedding failure that names the status; the step that meets it ends the
\* run, stores nothing and leaves status error with that message; an ended
\* run takes no further step, and every step of the loop that requests
\* embeddings either ends the run or moves on to the next batch, so no batch
\* is requested twice.
C27_EmbeddingFailureStops ==
    /\ EmbeddingError("401") = MsgInvalidKey
    /\ EmbeddingError("429") = MsgRateLimit
    /\ EmbeddingError("500") = MsgEmbedding500
    /\ EmbeddingError("503") = "Failed to generate embeddings: 503"
    /\ \A resp \in EmbeddingResponses \ {"ok", "throws"} :
         UserMessage(EmbeddingError(resp)) = EmbeddingError(resp)
    /\ [][\A r \in RunIds :
            LET d == runs[r].documentId IN
            /\ (runs[r].pc = "embed" /\ runs'[r] # runs[r]) =>
                 \/ /\ runs'[r].pc = "failed"
                    /\ chunks' = chunks
                    /\ Exists(d) =>
                         /\ docs'[d].status = "error"
                         /\ docs'[d].error_message \in
                              { UserMessage(EmbeddingError(resp)) :
                                  resp \in EmbeddingResponses \ {"ok"} }
                              \cup {MsgInsert}
                    /\ ~Exists(d) => docs' = docs
                 \/ /\ runs'[r].pc = "embedding"
                    /\ runs'[r].i = runs[r].i + BatchSize
                    /\ runs'[r].calls = runs[r].calls + 1
                    /\ docs' = docs
            /\ (runs[r].pc = "embedding" /\ runs'[r] # runs[r]) =>
                 \/ runs'[r].pc = "embed" /\ runs'[r].i = runs[r].i
                                          /\ runs'[r].calls = runs[r].calls
                 \/ runs'[r].pc = "done"
            /\ Terminated(r) => runs'[r] = runs[r]]_vars

\* the second request of a run was answered 401 after the first batch was stored
C27_Witness ==
    /\ Exists(1) /\ OneRun(1) /\ 1 \notin deleting
    /\ \E r \in RunIds : runs[r].pc = "failed" /\ runs[r].documentId = 1
    /\ docs[1].status = "error"
    /\ docs[1].error_message = MsgInvalidKey
    /\ docs[1].processing_stage = "embedding"
    /\ ChunkRowCount(1) = BatchSize

\* the words of a chunk and the set of the elements of a sequence
Words(chunk) == SelectSeq(Split(chunk), LAMBDA w : Len(w) > 0)

Range(seq) == { seq[k] : k \in 1..Len(seq) }

\* the last m elements of a sequence
Last(seq, m) == SubSeq(seq, Len(seq) - m + 1, Len(seq))

\* the text neither starts nor ends with whitespace
Clean(text) == Len(text) > 0 /\ ~IsSpace(text[1]) /\ ~IsSpace(text[Len(text)])

\* C28 as stated, N being the number of words of the text: the words chunk k
\* (counted from 0) shares with chunk k+1 are exactly the first
\* min(O, N - (k+1)(W-O)) words of chunk k+1, and they are the last words of
\* chunk k.
C28_OverlapByWords ==
    chunker.pc = "done" =>
        LET step == chunker.chunkSize - chunker.overlap
            N == WordCount(chunker.text)
        IN  \A j \in 1..(Len(chunker.chunks) - 1) :
                LET a == Words(chunker.chunks[j])
                    b == Words(chunker.chunks[j + 1])
                    m == Min(chunker.overlap, N - j * step)
                IN  /\ m \in 0..Min(Len(a), Len(b))
                    /\ Range(a) \cap Range(b) = Range(SubSeq(b, 1, m))
                    /\ SubSeq(b, 1, m) = Last(a, m)

\* C28: with L the number of elements of text.split(/\s+/), the window of
\* pass k starts at element k(W-O); the elements it shares with the window of
\* pass k+1 are exactly the first min(O, L - (k+1)(W-O)) elements of that
\* window, and they are the last elements of the window of pass k; the chunks
\* are the windows joined by single spaces, in order, without a window that
\* is a single empty element.  For a text that neither starts nor ends with
\* whitespace the elements are its words and the statement holds for its
\* chunks as given.
C28_OverlapByElements ==
    chunker.pc = "done" =>
        LET step == chunker.chunkSize - chunker.overlap
            L == Len(chunker.words)
            passes == CeilDiv(L, step)
            window(p) == Slice(chunker.words, p * step, p * step + chunker.chunkSize)
            kept == { p \in 0..(passes - 1) : Len(Join(window(p))) > 0 }
        IN  /\ chunker.words = Split(chunker.text)
            /\ Len(chunker.chunks) = Cardinality(kept)
            /\ \A p \in kept :
                 chunker.chunks[Cardinality({ q \in kept : q <= p })] = Join(window(p))
            /\ \A p \in 0..(passes - 1) :
                 /\ Len(window(p)) = Min(chunker.chunkSize, L - p * step)
                 /\ window(p) = SubSeq(chunker.words, p * step + 1, p * step + Len(window(p)))
            /\ \A p \in 0..(passes - 2) :
                 LET m == Min(chunker.overlap, L - (p + 1) * step) IN
                   /\ m \in 0..Min(Len(window(p)), Len(window(p + 1)))
                   /\ p * step + Len(window(p)) = (p + 1) * step + m
                   /\ SubSeq(window(p + 1), 1, m) = Last(window(p), m)
                   /\ Range(Words(Join(window(p)))) \cap Range(Words(Join(window(p + 1))))
                        = Range(Words(Join(SubSeq(window(p + 1), 1, m))))
            /\ Clean(chunker.text) =>
                 /\ L = WordCount(chunker.text)
                 /\ kept = 0..(passes - 1)
                 /\ \A j \in 1..(Len(chunker.chunks) - 1) :
                      LET a == Words(chunker.chunks[j])
                          b == Words(chunker.chunks[j + 1])
                          m == Min(chunker.overlap, L - j * step)
                      IN  /\ a = window(j - 1) /\ b = window(j)
                          /\ m \in 0..Min(Len(a), Len(b))
                          /\ Range(a) \cap Range(b) = Range(SubSeq(b, 1, m))
                          /\ SubSeq(b, 1, m) = Last(a, m)

\* three chunks of a text of three words: the last one is shorter than the
\* window and is the overlap of the one before
C28_Witness ==
    /\ chunker.pc = "done"
    /\ Clean(chunker.text)
    /\ chunker.chunkSize = 2 /\ chunker.overlap = 1
    /\ Len(chunker.chunks) = 3
    /\ Words(chunker.chunks[3]) = Last(Words(chunker.chunks[2]), 1)
    /\ Words(chunker.chunks[2])[1] = Last(Words(chunker.chunks[1]), 1)[1]

\* C29: a run of a PDF the parser accepts goes on with the extracted text
\* when its trimmed length reaches the minimum, and takes the fallback
\* otherwise; a PDF that holds no text at all, for which no fallback can yield
\* text, ends the run as failed with the empty-extraction error and status
\* error.
C29_EmptyPdfFails ==
    [][\A r \in RunIds :
         LET c == runs[r].content
             d == runs[r].documentId
         IN  (/\ runs[r].pc = "extracting"
              /\ runs[r].actualFileType = TypePdf
              /\ c.parses
              /\ runs'[r] # runs[r])
             => /\ Len(Trim(PdfText(c))) >= PdfMinChars =>
                     /\ runs'[r].pc = "chunking"
                     /\ runs'[r].text = Substring(PdfText(c), MaxTextLength)
                /\ (Len(Trim(PdfText(c))) < PdfMinChars /\ runs'[r].pc = "chunking") =>
                     runs'[r].text \in { Substring(t, MaxTextLength) : t \in OcrResults }
                /\ Len(Trim(c.text)) = 0 =>
                     /\ runs'[r].pc = "failed"
                     /\ Exists(d) => /\ docs'[d].status = "error"
                                     /\ docs'[d].error_message = MsgPdfEmpty]_vars

\* C30: whatever the vision call meets other than an analysis (an exception,
\* a response that is not ok, an empty analysis), the image branch yields the
\* placeholder text; the extraction step of an image run never ends the run:
\* it goes on to chunking with the analysis or the placeholder, a text that
\* is not empty, and leaves the status of the document as it was.
C30_VisionFailureSubstitutes ==
    /\ \A o \in VisionOutcomes \ {"analysis"} :
         /\ analyzeImageWithVision(o) = <<>>
         /\ ExtractImageWith(o) = Ok(ImagePlaceholder)
    /\ [][\A r \in RunIds :
            LET d == runs[r].documentId IN
            (/\ runs[r].pc = "extracting"
             /\ runs[r].actualFileType = TypeImage
             /\ runs'[r] # runs[r])
            => /\ runs'[r].pc = "chunking"
               /\ runs'[r].text \in { Substring(VisionText, MaxTextLength),
                                      Substring(ImagePlaceholder, MaxTextLength) }
               /\ Len(chunkText(runs'[r].text, ChunkSize, ChunkOverlap)) > 0
               /\ Exists(d) => /\ docs'[d].processing_stage = "chunking"
                               /\ docs'[d].status = docs[d].status
                               /\ docs'[d].error_message = docs[d].error_message]_vars

\* an image whose analysis failed has been classified, chunked and embedded
\* with the placeholder as its text
C30_Witness ==
    /\ Exists(1) /\ OneRun(1)
    /\ docs[1].file_type = TypeImage
    /\ docs[1].status = "ready"
    /\ docs[1].folder # NullText
    /\ docs[1].chunk_count = 1
    /\ \E row \in ChunksOf(1) : row.chunk_text = ImagePlaceholder

\* C31: the run keeps at most MaxTextLength characters of the extracted text
\* before it classifies, chunks and embeds; text_length of a ready document
\* is at most that, and every chunk the run stores is a chunk of the kept
\* prefix, made of its words only.
C31_TextTruncated ==
    /\ [](\A d \in DocIds :
            (Exists(d) /\ docs[d].status = "ready")
            => docs[d].text_length \in 0..MaxTextLength)
    /\ [][\A r \in RunIds :
            /\ (runs[r].pc = "extracting" /\ runs'[r].pc = "chunking") =>
                 /\ Len(runs'[r].text) <= MaxTextLength
                 /\ \E out \in ExtractText(runs[r].actualFileType, runs[r].content) :
                      /\ out.ok
                      /\ runs'[r].text = SubSeq(out.text, 1, Min(MaxTextLength, Len(out.text)))
            /\ (runs[r].pc = "chunking" /\ runs'[r].pc = "embedding") =>
                 /\ runs'[r].text = runs[r].text
                 /\ runs'[r].chunks = chunkText(runs[r].text, ChunkSize, ChunkOverlap)
                 /\ \A k \in 1..Len(runs'[r].chunks) :
                      Range(Words(runs'[r].chunks[k])) \subseteq Range(Words(runs[r].text))
            /\ (runs[r].pc = "embed" /\ runs'[r].pc = "embedding") =>
                 \A row \in DOMAIN chunks' :
                     CopiesIn(row, chunks') > CopiesIn(row, chunks)
                     => /\ row.chunk_text \in Range(runs[r].chunks)
                        /\ Range(Words(row.chunk_text)) \subseteq Range(Words(runs[r].text))
            /\ (runs[r].pc = "embedding" /\ runs'[r].pc = "done"
                  /\ Exists(runs[r].documentId)) =>
                 /\ docs'[runs[r].documentId].text_length = Len(runs[r].text)
                 /\ Len(runs[r].text) <= MaxTextLength]_vars

\* a text file longer than the maximum is ready: its length is the maximum
\* and the words behind the cut are in no chunk
C31_Witness ==
    /\ Exists(1) /\ OneRun(1) /\ 1 \notin deleting
    /\ docs[1].file_type = TextPlain
    /\ docs[1].status = "ready"
    /\ docs[1].text_length = MaxTextLength
    /\ Len(TextLong) > MaxTextLength
    /\ ChunkRowCount(1) = docs[1].chunk_count
    /\ \A row \in ChunksOf(1) : <<"h">> \notin Range(Words(row.chunk_text))

----------------------------------------------------------------------------
(* search_chunks as a function of the store, the question, the user and the  *)
(* row limit. The stores hold rows of both users at every distance from the  *)
(* question, the nearest of them more than once.                             *)

MaxMatchCount == 3
MaxCopies == 2

\* the limits tried: small ones that cut the result, and the one query-rag passes
MatchCounts == (1..MaxMatchCount) \cup {InitialMatchCount}

EmbeddingCodes == 0..5

SearchRow(d, u, e) ==
    [ document_id |-> d, user_id |-> u, chunk_text |-> <<"w">>, chunk_index |-> e,
      token_count |-> 1, embedding |-> e, folder |-> NullText,
      parent_folder |-> NullText,
      metadata |-> [file_name |-> "a.md", folder |-> NullText] ]

\* how many rows of u1 the store holds at each embedding
SearchStores ==
    { store \in [EmbeddingCodes -> 0..MaxCopies] : \A e \in EmbeddingCodes : e > 1 => store[e] <= 1 }

StoreBag(store) ==
    [ row \in { SearchRow(1, "u1", e) : e \in { c \in EmbeddingCodes : store[c] > 0 } }
        |-> store[row.embedding] ]
    (+) SetToBag({ SearchRow(2, "u2", e) : e \in {0, 2} })

SearchInit ==
    /\ docs = [d \in StoreDocIds |->
                 ReadyDocument(IF d = 1 THEN "u1" ELSE "u2", "a.md", TextPlain, TextSeven,
                               1, NullText, 0, "pending")]
    /\ \E store \in SearchStores : chunks = StoreBag(store)
    /\ nextDoc = MaxDocs + 2
    /\ runs = [r \in RunIds |-> IdleRun]
    /\ deleting = {}
    /\ conversations = [c \in ConvIds |-> IF c = "c1" THEN "u1" ELSE "u2"]
    /\ messages = <<>>
    /\ \E u \in Users, text \in QueryTexts :
         query = [IdleQuery EXCEPT !.pc = "search", !.userId = u, !.query = text]
    /\ response = NoResponse
    /\ chunker = IdleChunker

\* supabase.rpc('search_chunks', {...}) with the row limit n
SearchRows(n) ==
    /\ query.pc = "search"
    /\ \E rows \in search_chunks(Embed(query.query), InitialMatchThreshold, n,
                                 query.userId) :
         query' = [query EXCEPT !.pc = "found", !.chunks = rows]
    /\ UNCHANGED <<conversations, messages, docs, chunks, nextDoc, runs, deleting,
                   response, chunker>>

SearchNext == \E n \in MatchCounts : SearchRows(n)

SpecSearch == SearchInit /\ [][SearchNext]_vars

\* the stored rows of user u that are more similar to qe than the threshold
Eligible(u, qe) ==
    { inst \in RowInstances :
        /\ inst[1].user_id = u
        /\ Similarity(inst[1].embedding, qe) > InitialMatchThreshold }

----------------------------------------------------------------------------
\* the file name and the folder a chunk row carries in its metadata
CachedName(row) ==
    IF Falsy(row.metadata.file_name) THEN "Unknown" ELSE row.metadata.file_name

CachedFolder(row) ==
    IF Falsy(row.metadata.folder) THEN Uncategorized ELSE row.metadata.folder

\* C33: the source list has one entry per reranked fragment, in the order and
\* with the similarity of the fragments labeled [Source 1..k] in the context;
\* an entry carries the file name and the folder of the fragment's document,
\* or the file name and the folder cached in the fragment's metadata when the
\* document lookup gives nothing.
C33_SourcesFollowContext ==
    [][(query.pc = "documents" /\ query'.pc = "generate") =>
         LET rows == query.rerankedChunks
             sources == query'.sources
         IN  /\ Len(sources) = Len(rows)
             /\ Len(query.context) = Len(rows)
             /\ \A k \in 1..Len(rows) :
                  /\ query.context[k].source = k
                  /\ query.context[k].text = rows[k].chunk_text
                  /\ sources[k].similarity = rows[k].similarity
                  /\ \/ /\ Exists(rows[k].document_id)
                        /\ sources[k].document_name = docs[rows[k].document_id].file_name
                        /\ sources[k].folder =
                             IF Falsy(docs[rows[k].document_id].folder)
                             THEN CachedFolder(rows[k])
                             ELSE docs[rows[k].document_id].folder
                     \/ /\ sources[k].document_name = CachedName(rows[k])
                        /\ sources[k].folder = CachedFolder(rows[k])
    ]_vars

----------------------------------------------------------------------------
\* two stored rows of document d have the same chunk_index
DuplicateIndex(d) ==
    \E row \in ChunksOf(d) :
        \/ chunks[row] > 1
        \/ \E other \in ChunksOf(d) : other # row /\ other.chunk_index = row.chunk_index

\* C34: a process request for a document is accepted whatever the document
\* already holds, also while another run works on it; no step of a run removes
\* a chunk row; every batch is added to the rows already stored, the rows of
\* an earlier run with the same chunk_index included; and a run that ends
\* ready has gone through all its batches.
C34_RerunAppends ==
    /\ [](\A d \in DocIds, c \in Contents :
            (c # NoContent /\ \E r \in RunIds : FreeSlot(r))
            => ENABLED (\E r \in RunIds : StartProcessing(r, d, c)))
    /\ [][\A r \in RunIds :
            /\ runs'[r] # runs[r] => chunks \sqsubseteq chunks'
            /\ (runs[r].pc = "embed" /\ runs'[r].pc = "embedding") =>
                 \A k \in 1..Len(Batch(r)) :
                    \E row \in BagToSet(chunks') :
                       /\ row.document_id = runs[r].documentId
                       /\ row.chunk_index = runs[r].i + k - 1
                       /\ row.chunk_text = Batch(r)[k]
                       /\ CopiesIn(row, chunks') = CopiesIn(row, chunks) + 1
            /\ (runs[r].pc = "embedding" /\ runs'[r].pc = "done") =>
                 runs[r].i >= Len(runs[r].chunks)
       ]_vars

\* two runs have ended ready on the same document, and its rows are twice
\* the chunks of the text, every chunk_index stored twice
C34_Witness ==
    \E d \in DocIds :
        /\ Exists(d)
        /\ docs[d].status = "ready"
        /\ docs[d].chunk_count > 1
        /\ \A r \in RunIds : runs[r].pc = "done" /\ runs[r].documentId = d
        /\ ChunkRowCount(d) = 2 * docs[d].chunk_count
        /\ DuplicateIndex(d)
        /\ \A row \in ChunksOf(d) : chunks[row] = 2

----------------------------------------------------------------------------
(* Two documents of two users, created by stage 1, and the runs on them.     *)

PairContents == { c \in Contents : c.text \in {TextSeven, TextLong} }

PairInit ==
    /\ docs = [d \in StoreDocIds |->
                 IF d = 1 THEN NewDocument("u1", "a.md", TextPlain)
                 ELSE NewDocument("u2", "a.md", TypePdf)]
    /\ chunks = EmptyBag
    /\ nextDoc = MaxDocs + 2
    /\ runs = [r \in RunIds |-> IdleRun]
    /\ deleting = {}
    /\ NoChat
    /\ response = NoResponse
    /\ chunker = IdleChunker

PairNext ==
    \/ \E r \in RunIds, d \in StoreDocIds, c \in PairContents : StartProcessing(r, d, c)
    \/ \E r \in RunIds : Begin(r)
    \/ \E r \in RunIds : Extract(r)
    \/ \E r \in RunIds : Chunk(r)
    \/ \E r \in RunIds : UpdateProgress(r)
    \/ \E r \in RunIds : EmbedBatch(r)
    \/ \E r \in RunIds : Finish(r)
    \/ \E d \in StoreDocIds : DeleteChunks(d)
    \/ \E d \in StoreDocIds : DeleteDocument(d)
    \/ \E d \in StoreDocIds : Retry(d)

SpecPair == PairInit /\ [][PairNext]_vars

\* the stored rows of document d, with their multiplicity
RowBag(d, bag) ==
    [row \in { x \in BagToSet(bag) : x.document_id = d } |-> CopiesIn(row, bag)]

\* C35: a step of a run changes no field of the row of a document other than
\* the run's own, and neither adds nor removes a chunk row of another
\* document.
C35_RunsIndependent ==
    [][\A r \in RunIds :
         runs'[r] # runs[r] =>
           \A d \in StoreDocIds :
              d # runs'[r].documentId =>
                /\ docs'[d] = docs[d]
                /\ RowBag(d, chunks') = RowBag(d, chunks)
    ]_vars

\* both runs are in their embedding loops on different documents, each
\* document with rows stored
C35_Witness ==
    /\ runs[1].documentId # runs[2].documentId
    /\ \A r \in RunIds :
         /\ runs[r].pc \in {"embed", "embedding"}
         /\ runs[r].i > 0
         /\ ChunksOf(runs[r].documentId) # {}
         /\ docs[runs[r].documentId].processing_stage = "embedding"

----------------------------------------------------------------------------
(* The folder operations of the client: DocumentSidebar.handleDrop and        *)
(* handleRenameFolder, MergeFoldersDialog.handleMerge. They run under the     *)
(* user's session, so the row policies of part_000 apply to their statements. *)

\* the commands document_chunks has a row policy for (part_000:86-98)
ChunkPolicies == {"SELECT", "INSERT", "DELETE"}

FolderNames == {"Strategy", "Plans", Uncategorized}

\* the rows sel with the columns of upd replaced, the other rows as they are
UpdateChunksUnrestricted(sel, upd) ==
    LET changed == { Merge(row, upd) : row \in sel }
    IN  WithoutRows(sel)
        (+) [ n \in changed |->
                BagCardinality([row \in { x \in sel : Merge(x, upd) = n } |-> chunks[row]]) ]

\* document_chunks.update(upd) on the rows sel: row security is enabled and
\* no policy admits UPDATE, so the statement changes no row and reports none
UpdateChunks(sel, upd) ==
    IF "UPDATE" \in ChunkPolicies THEN UpdateChunksUnrestricted(sel, upd) ELSE chunks

\* targetFolder === 'Uncategorized' ? null : targetFolder
NormalizedFolder(name) == IF name = Uncategorized THEN NullText ELSE name

\* handleDrop: move one document of the user into a folder
HandleDrop(d, targetFolder) ==
    /\ Exists(d)
    /\ docs[d].folder # NormalizedFolder(targetFolder)
    /\ docs' = UpdateDocument(d, [folder |-> NormalizedFolder(targetFolder)])
    /\ chunks' = UpdateChunks(ChunksOf(d), [folder |-> NormalizedFolder(targetFolder)])
    /\ UNCHANGED <<chat, nextDoc, runs, deleting, response, chunker>>

\* .eq('user_id', u) with .is('folder', null) or .eq('folder', name)
InFolder(row, u, name) ==
    /\ row.user_id = u
    /\ IF name = Uncategorized THEN row.folder = NullText ELSE row.folder = name

\* handleRenameFolder: rename a folder of user u
HandleRenameFolder(u, renamingFolder, trimmedName) ==
    /\ docs' = [d \in DOMAIN docs |->
                  IF Exists(d) /\ InFolder(docs[d], u, renamingFolder)
                  THEN Merge(docs[d], [folder |-> trimmedName]) ELSE docs[d]]
    /\ chunks' = UpdateChunks({ row \in DOMAIN chunks : InFolder(row, u, renamingFolder) },
                              [folder |-> trimmedName])
    /\ UNCHANGED <<chat, nextDoc, runs, deleting, response, chunker>>

\* .eq('user_id', u).eq('folder', name === 'Uncategorized' ? null : name):
\* a comparison with null selects no row
FolderEquals(row, u, name) ==
    /\ row.user_id = u
    /\ name # Uncategorized
    /\ row.folder = name

\* handleMerge: nest the folder sourceFolder of user u under targetFolder
HandleMerge(u, sourceFolder, targetFolder) ==
    /\ sourceFolder # targetFolder
    /\ docs' = [d \in DOMAIN docs |->
                  IF Exists(d) /\ FolderEquals(docs[d], u, sourceFolder)
                  THEN Merge(docs[d], [parent_folder |-> NormalizedFolder(targetFolder)])
                  ELSE docs[d]]
    /\ chunks' = UpdateChunks({ row \in DOMAIN chunks : FolderEquals(row, u, sourceFolder) },
                              [parent_folder |-> NormalizedFolder(targetFolder)])
    /\ UNCHANGED <<chat, nextDoc, runs, deleting, response, chunker>>

FolderContents == { c \in Contents : c.text = TextSeven }

FoldersNext ==
    \/ \E u \in Users : CreateDocument(u, "a.md", TextPlain)
    \/ \E r \in RunIds, d \in DocIds, c \in FolderContents : StartProcessing(r, d, c)
    \/ \E r \in RunIds : Begin(r)
    \/ \E r \in RunIds : Extract(r)
    \/ \E r \in RunIds : Chunk(r)
    \/ \E r \in RunIds : UpdateProgress(r)
    \/ \E r \in RunIds : EmbedBatch(r)
    \/ \E r \in RunIds : Finish(r)
    \/ \E d \in DocIds : DeleteChunks(d)
    \/ \E d \in DocIds : DeleteDocument(d)
    \/ \E d \in DocIds : Retry(d)
    \/ \E d \in DocIds, f \in FolderNames : HandleDrop(d, f)
    \/ \E u \in Users, f \in FolderNames : HandleRenameFolder(u, f, "Plans")
    \/ \E u \in Users, f, g \in FolderNames : HandleMerge(u, f, g)

SpecFolders == Init /\ [][FoldersNext]_vars

----------------------------------------------------------------------------
\* C37: a document in status ready is in stage complete with progress 100,
\* whichever ingestion made it ready.
C37_ReadyIsComplete ==
    \A d \in DOMAIN docs :
        (Exists(d) /\ docs[d].status = "ready")
        => /\ docs[d].processing_stage = "complete"
           /\ docs[d].processing_progress = ProgressComplete

----------------------------------------------------------------------------
(* Questions over a store whose rows are only weakly similar to them.        *)

\* the embeddings of the rows of u1: every non-empty choice among three codes
WeakStores == (SUBSET {1, 2, 3}) \ {{}}

WeakInit ==
    /\ docs = [d \in StoreDocIds |->
                 ReadyDocument(IF d = 1 THEN "u1" ELSE "u2", "a.md", TextPlain, TextSeven,
                               1, NullText, ProgressComplete, "complete")]
    /\ \E codes \in WeakStores :
         chunks = SetToBag({ SearchRow(1, "u1", e) : e \in codes }
                           \cup { SearchRow(2, "u2", 0) })
    /\ nextDoc = MaxDocs + 2
    /\ runs = [r \in RunIds |-> IdleRun]
    /\ deleting = {}
    /\ conversations = [c \in ConvIds |-> IF c = "c1" THEN "u1" ELSE "u2"]
    /\ messages = <<>>
    /\ query = IdleQuery
    /\ response = NoResponse
    /\ chunker = IdleChunker

SpecWeak == WeakInit /\ [][QueryNext]_vars

\* the search of the question has candidates, none of them at the rerank threshold
OnlyWeakCandidates ==
    LET found == Eligible(query.userId, Embed(query.query))
    IN  /\ found # {}
        /\ \A inst \in found :
              Similarity(inst[1].embedding, Embed(query.query)) < RerankThreshold

\* C38: when the search has candidates and none reaches 0.28, the question is
\* not answered with the no-information text: unless a call fails, the handler
\* goes on with no reranked fragment and an empty context, builds an empty
\* source list, calls the completion, stores its answer with sources [] and
\* returns it with sources [].
C38_WeakCandidatesStillAnswered ==
    [][/\ (query.pc = "search" /\ query' # query /\ OnlyWeakCandidates) =>
            \/ /\ query'.pc = "documents"
               /\ Len(query'.chunks) >= 1
               /\ query'.rerankedChunks = <<>>
               /\ query'.context = <<>>
               /\ messages' = messages
            \/ /\ query'.pc = "idle"
               /\ query'.response.kind = "error"
               /\ messages' = messages
       /\ (query.pc = "documents" /\ query' # query /\ query.rerankedChunks = <<>>) =>
            /\ query'.pc = "generate"
            /\ query'.sources = <<>>
       /\ (query.pc = "generate" /\ query' # query /\ query.context = <<>>) =>
            \/ /\ query'.response = [kind |-> "answer", answer |-> GeneratedAnswer,
                                     sources |-> <<>>]
               /\ messages' = Append(messages,
                      Message(query.conversation_id, query.userId, "assistant",
                              GeneratedAnswer, <<>>))
            \/ /\ query'.response.kind = "error"
               /\ messages' = messages
    ]_vars

\* a question whose candidates were all below 0.28 has been answered by the
\* completion, with no sources
C38_Witness ==
    /\ query.pc = "idle"
    /\ Len(query.chunks) >= 1
    /\ \A k \in 1..Len(query.chunks) : query.chunks[k].similarity < RerankThreshold
    /\ query.rerankedChunks = <<>>
    /\ query.response = [kind |-> "answer", answer |-> GeneratedAnswer, sources |-> <<>>]
    /\ Len(messages) >= 2
    /\ messages[Len(messages)].role = "assistant"
    /\ messages[Len(messages)].content = GeneratedAnswer
    /\ messages[Len(messages)].sources = <<>>

----------------------------------------------------------------------------
\* a sequence without its first m elements
DropFirst(seq, m) == SubSeq(seq, Min(m, Len(seq)) + 1, Len(seq))

RECURSIVE Stitch(_, _)
\* the first sequence, then every later one without its first m elements
Stitch(seqs, m) ==
    IF Len(seqs) = 0 THEN <<>>
    ELSE IF Len(seqs) = 1 THEN seqs[1]
    ELSE Stitch(SubSeq(seqs, 1, Len(seqs) - 1), m) \o DropFirst(seqs[Len(seqs)], m)

\* C39 as stated, the words being the words of the text: chunk k (counted
\* from 0) is words[k(W-O) .. k(W-O)+W) joined by single spaces, every word
\* occurs in a chunk, and the first chunk followed by every later chunk
\* without its first O words is the word sequence of the text.
C39_NothingLostByWords ==
    chunker.pc = "done" =>
        LET step == chunker.chunkSize - chunker.overlap
            words == Words(chunker.text)
            chunkWords == [j \in 1..Len(chunker.chunks) |-> Words(chunker.chunks[j])]
        IN  /\ \A j \in 1..Len(chunker.chunks) :
                 chunker.chunks[j] =
                     Join(Slice(words, (j - 1) * step, (j - 1) * step + chunker.chunkSize))
            /\ \A w \in Range(words) : \E j \in 1..Len(chunkWords) : w \in Range(chunkWords[j])
            /\ Stitch(chunkWords, chunker.overlap) = words

\* C39: with the elements of text.split(/\s+/) in place of the words, the
\* window of pass k is elements[k(W-O) .. k(W-O)+W); the chunks are the
\* windows joined by single spaces, in order, without a window that is a
\* single empty element; every element is in a window and every word in a
\* chunk, the words of a chunk are the words of its window in their order; and
\* the first window followed by every later window without its first O
\* elements is the element sequence.  For a text that neither starts nor ends
\* with whitespace the elements are its words and the statement holds for its
\* chunks as given.
C39_NothingLostByElements ==
    chunker.pc = "done" =>
        LET step == chunker.chunkSize - chunker.overlap
            elements == Split(chunker.text)
            L == Len(elements)
            passes == CeilDiv(L, step)
            window(p) == SubSeq(elements, p * step + 1,
                                Min(p * step + chunker.chunkSize, L))
            windows == [p \in 1..passes |-> window(p - 1)]
            kept == { p \in 0..(passes - 1) : window(p) # <<<<>>>> }
            chunkWords == [j \in 1..Len(chunker.chunks) |-> Words(chunker.chunks[j])]
        IN  /\ Len(chunker.chunks) = Cardinality(kept)
            /\ \A p \in kept :
                 LET j == Cardinality({ q \in kept : q <= p }) IN
                   /\ chunker.chunks[j] = Join(window(p))
                   /\ chunkWords[j] = SelectSeq(window(p), LAMBDA w : Len(w) > 0)
            /\ \A k \in 1..L : \E p \in 0..(passes - 1) :
                 k \in (p * step + 1)..(p * step + Len(window(p)))
            /\ \A w \in Range(Words(chunker.text)) :
                 \E j \in 1..Len(chunkWords) : w \in Range(chunkWords[j])
            /\ Stitch(windows, chunker.overlap) = elements
            /\ Clean(chunker.text) =>
                 /\ elements = Words(chunker.text)
                 /\ \A j \in 1..Len(chunker.chunks) :
                      chunker.chunks[j] =
                          Join(Slice(elements, (j - 1) * step,
                                     (j - 1) * step + chunker.chunkSize))
                 /\ Stitch(chunkWords, chunker.overlap) = elements

\* a text of three words chunked with window 3 and overlap 2: three chunks,
\* the later ones adding one word or none to what came before
C39_Witness ==
    /\ chunker.pc = "done"
    /\ Clean(chunker.text)
    /\ chunker.chunkSize = 3 /\ chunker.overlap = 2
    /\ Len(Words(chunker.text)) = 3
    /\ Len(chunker.chunks) = 3
    /\ DropFirst(Words(chunker.chunks[2]), chunker.overlap) = <<>>
    /\ Stitch([j \in 1..3 |-> Words(chunker.chunks[j])], chunker.overlap)
         = Words(chunker.text)

----------------------------------------------------------------------------
\* C40: a step of a run whose document row is gone (never there, or deleted
\* by a cancel or a delete while the run was going on) leaves the row absent,
\* stores no chunk row, and changes no other document and none of its rows;
\* the lookup at the start and the next batch insert end such a run as
\* failed.  No chunk row exists for a document without a row.
C40_RunOnMissingDocument ==
    /\ [](\A d \in StoreDocIds : ~Exists(d) => ChunksOf(d) = {})
    /\ [][\A r \in RunIds :
            (runs'[r] # runs[r] /\ ~Exists(runs'[r].documentId)) =>
              /\ docs'[runs'[r].documentId] = NoDoc
              /\ chunks' = chunks
              /\ docs' = docs
              /\ runs[r].pc \in {"start", "embed"} => runs'[r].pc = "failed"
              /\ runs'[r].pc \in {"failed", "done"} => runs'[r] = Ended(r, runs'[r].pc)
       ]_vars

\* a run has ended as failed on a document whose row is gone, while the other
\* run stores the chunks of the other document
C40_Witness ==
    \E r, q \in RunIds :
        /\ runs[r].pc = "failed"
        /\ ~Exists(runs[r].documentId)
        /\ ChunksOf(runs[r].documentId) = {}
        /\ runs[q].documentId # runs[r].documentId
        /\ runs[q].pc = "embedding"
        /\ Exists(runs[q].documentId)
        /\ ChunksOf(runs[q].documentId) # {}

====
